---- MODULE Spec2Model ----
(***************************************************************************)
(* Model of the homelab container lifecycle engine: the ordering of the    *)
(* containers selected for an operation (containerMapToList), the host     *)
(* admission check and start sequence of one container (container.start,   *)
(* container.startInternal), the purge loop (container.purge), the batch   *)
(* driver that runs start over the resolved containers, the docker client  *)
(* (pullImage, createContainer, createNetwork, networkExists,              *)
(* getContainerState) and container.generateDockerConfigs (envVars, labels *)
(* and the settings with a global default).                                *)
(*                                                                         *)
(* The runtime behind the docker client answers freely (any answer the API *)
(* allows), except in SpecRepeat and in part of SpecWarnings and of        *)
(* SpecRollback, where the state of the container is followed from call    *)
(* to call.                                                                *)
(*                                                                         *)
(* Strings that the code compares or concatenates (group names, container  *)
(* names, composite names) are sequences of byte values, so that Go's      *)
(* bytewise string comparison and fmt.Sprintf("%s-%s") are computed and    *)
(* not assumed.                                                            *)
(***************************************************************************)
EXTENDS Integers, Sequences, FiniteSets, TLC

VARIABLES
    dep,                \* the deployment: groups, containers, host allow-list
    selector,           \* the command's target selector
    resolved,           \* the ordered containers the command works on
    pc,                 \* position of the (single-threaded) program
    idx,                \* index in resolved of the container being processed
    purged,             \* container.purge local
    stoppedOnceAlready, \* container.purge local
    attemptsRemaining,  \* container.purge local
    st,                 \* container.purge local: the last state read
    netsLeft,           \* endpoints of the current container not yet connected
    networks,           \* runtime: the networks that exist
    errors,             \* batch driver: the failures recorded so far
    result,             \* batch driver: the value the command returns
    notices,            \* output channel: notices of container.start
    calls,              \* history: runtime calls made for the current container
    touched,            \* history: containers for which a runtime call was made
    stuck,              \* history: the one state every query of this purge read
    processed,          \* history: containers handed to container.start
    debug,              \* dockerClient.debug
    curNet,             \* the endpoint whose network was just ensured
    rt,                 \* runtime: the state of the current container
    nethist,            \* history: the network calls made in this run
    ctxDone,            \* the context handed to the command is done
    invocation,         \* the number of this run of the command
    config,             \* the configuration generateDockerConfigs reads
    dockerConfig,       \* the docker configuration it returns
    images,             \* the runtime's answers to one pullImage
    pullResult,         \* what that pullImage returned and reported
    warn                \* runtime: the creations it answers with warnings

vars == <<dep, selector, resolved, pc, idx, purged, stoppedOnceAlready,
          attemptsRemaining, st, netsLeft, networks, errors, result, notices,
          calls, touched, stuck, processed, debug, curNet, rt, nethist,
          ctxDone, invocation, config, dockerConfig, images, pullResult,
          warn>>

(***************************************************************************)
(* Bounds of the model.                                                    *)
(***************************************************************************)
MaxOrder == 2
MaxContainers == 3

(***************************************************************************)
(* Program constants.                                                      *)
(***************************************************************************)
stopAndRemoveAttempts == 5

(***************************************************************************)
(* Strings.                                                                *)
(***************************************************************************)
\* Go's < on strings: bytewise lexicographic, a proper prefix sorts first.
StrLess(a, b) ==
    \E k \in 1..(Len(a) + 1) :
        /\ \A i \in 1..(k - 1) : i <= Len(b) /\ a[i] = b[i]
        /\ \/ k = Len(a) + 1 /\ Len(b) >= k
           \/ k <= Len(a) /\ k <= Len(b) /\ a[k] < b[k]

\* fmt.Sprintf("%s-%s", group, container); 45 is the byte '-'.
containerName(group, container) == group \o <<45>> \o container

\* container.name()
name(c) == containerName(c.group, c.name)


(***************************************************************************)
(* Ordering of the selected containers.                                    *)
(***************************************************************************)
\* Mutant of the comparison: the container's order before its group's.
lessContainerOrderFirst(c1, c2) ==
    IF c1.order = c2.order
    THEN IF c1.gorder = c2.gorder
         THEN StrLess(name(c1), name(c2))
         ELSE c1.gorder < c2.gorder
    ELSE c1.order < c2.order

\* The comparison handed to sort.Slice.
less(c1, c2) ==
    IF c1.gorder = c2.gorder
    THEN IF c1.order = c2.order
         THEN StrLess(name(c1), name(c2))
         ELSE c1.order < c2.order
    ELSE c1.gorder < c2.gorder

\* The elements of cm that no element of cm is less than.
Least(cm) == { m \in cm : \A x \in cm : ~less(x, m) }

\* containerMapToList: the map's values in the order sort.Slice leaves them.
\* The map is iterated in an arbitrary order and sort.Slice is not stable, so
\* the result is any sequence of the values in which no element is less
\* than an earlier one: elements that compare equal come in either order.
RECURSIVE containerMapToList(_)
containerMapToList(cm) ==
    IF cm = {} THEN { <<>> }
    ELSE UNION { { <<m>> \o t : t \in containerMapToList(cm \ { m }) } :
                 m \in Least(cm) }

\* Mutant of the pre-flight check: the container is looked up before the
\* group.
queryErrorContainerFirst(d, sel) ==
    IF sel.kind = "all" THEN "none"
    ELSE IF /\ sel.kind = "container"
            /\ ~\E c \in d.containers : c.group = sel.group /\ c.name = sel.name
         THEN "UnknownContainer"
    ELSE IF sel.group \notin d.groups THEN "UnknownGroup"
    ELSE "none"

\* The selector's pre-flight error, "none" when it names existing targets.
queryError(d, sel) ==
    IF sel.kind = "all" THEN "none"
    ELSE IF sel.group \notin d.groups THEN "UnknownGroup"
    ELSE IF /\ sel.kind = "container"
            /\ ~\E c \in d.containers : c.group = sel.group /\ c.name = sel.name
         THEN "UnknownContainer"
    ELSE "none"

\* The containers a selector matches.
Selected(d, sel) ==
    { c \in d.containers :
        \/ sel.kind = "all"
        \/ sel.kind = "group" /\ c.group = sel.group
        \/ sel.kind = "container" /\ c.group = sel.group /\ c.name = sel.name }

(***************************************************************************)
(* Deployments.                                                            *)
(***************************************************************************)
\* A container as the deployment model holds it: its identity, its order and
\* its group's order, its image and the networks it has an endpoint on.
Container(g, n, go, o, img, nets) ==
    [group |-> g, name |-> n, gorder |-> go, order |-> o, image |-> img,
     nets |-> nets]

\* The deployment of testdata/start-cmd: g1 (order 1) with c1 (order 1) and
\* c2 (order 2) on net1, g2 (order 2) with c3 (order 1) on net2.  The names
\* are the bytes of "g1", "g2", "c1", "c2", "c3".
StartCmdContainers ==
    { Container(<<103, 49>>, <<99, 49>>, 1, 1, "abc/xyz", {"net1"}),
      Container(<<103, 49>>, <<99, 50>>, 1, 2, "abc/xyz2", {"net1"}),
      Container(<<103, 50>>, <<99, 51>>, 2, 1, "abc/xyz3", {"net2"}) }

StartCmdGroups == { <<103, 49>>, <<103, 50>> }

\* The start-cmd deployment on every host: a host allows any subset of the
\* configured containers (host.allowedContainers, keyed by composite name).
StartDeployments ==
    { [groups |-> StartCmdGroups, containers |-> StartCmdContainers,
       allowed |-> a] :
        a \in SUBSET { name(c) : c \in StartCmdContainers } }

\* The selectors of the start command on the start-cmd deployment: all
\* groups, one group (g3 does not exist), one container (g1-c3 and g3-c3 do
\* not exist).
StartSelectors ==
    { [kind |-> "all", group |-> <<>>, name |-> <<>>] }
    \cup { [kind |-> "group", group |-> g, name |-> <<>>] :
             g \in { <<103, 49>>, <<103, 50>>, <<103, 51>> } }
    \cup { [kind |-> "container", group |-> g, name |-> <<99, 51>>] :
             g \in { <<103, 49>>, <<103, 50>>, <<103, 51>> } }

\* Deployments for the ordering: groups "a", "aa" and "a-a" with any orders,
\* and up to MaxContainers containers with any orders among the identities
\* below ("a"/"a-a" and "a-a"/"a" share the composite name "a-a-a").
OrderGroups == { <<97>>, <<97, 97>>, <<97, 45, 97>> }

OrderIdentities ==
    { << <<97>>, <<97, 45, 97>> >>, << <<97, 45, 97>>, <<97>> >>,
      << <<97>>, <<97, 97>> >>, << <<97, 97>>, <<97>> >>,
      << <<97>>, <<97>> >>, << <<97, 97>>, <<97, 97>> >> }

OrderIdentitySets ==
    { ids \in SUBSET OrderIdentities :
        Cardinality(ids) >= 1 /\ Cardinality(ids) <= MaxContainers }

OrderDeployment(go, ids, co) ==
    [groups |-> OrderGroups,
     containers |-> { Container(i[1], i[2], go[i[1]], co[i], "img", {}) :
                        i \in ids },
     allowed |-> {}]

\* The selectors tried on them; group "b" does not exist.
OrderSelectors ==
    { [kind |-> "all", group |-> <<>>, name |-> <<>>] }
    \cup { [kind |-> "group", group |-> g, name |-> <<>>] :
             g \in { <<97>>, <<98>> } }
    \cup { [kind |-> "container", group |-> g, name |-> <<97, 97>>] :
             g \in { <<97>>, <<97, 97>> } }

(***************************************************************************)
(* The docker client.                                                      *)
(***************************************************************************)
\* What ContainerInspect can answer: a not-found error, another error, or a
\* container whose State.Status is one of docker's strings or any other.
Statuses ==
    { "created", "running", "paused", "restarting", "removing", "exited",
      "dead", "unrecognized" }

InspectOutcomes == { "ErrNotFound", "ErrOther" } \cup Statuses

containerStateFromString(state) ==
    CASE state = "created" -> "Created"
      [] state = "running" -> "Running"
      [] state = "paused" -> "Paused"
      [] state = "restarting" -> "Restarting"
      [] state = "removing" -> "Removing"
      [] state = "exited" -> "Exited"
      [] state = "dead" -> "Dead"
      [] OTHER -> "Unknown"

\* Mutant of getContainerState: a not-found error is an error like any other.
getContainerStateNotFoundFails(o) ==
    IF o \in { "ErrNotFound", "ErrOther" }
    THEN [state |-> "Unknown", err |-> TRUE]
    ELSE [state |-> containerStateFromString(o), err |-> FALSE]

\* dockerClient.getContainerState on an answer of ContainerInspect.
getContainerState(o) ==
    IF o = "ErrNotFound" THEN [state |-> "NotFound", err |-> FALSE]
    ELSE IF o = "ErrOther" THEN [state |-> "Unknown", err |-> TRUE]
    ELSE [state |-> containerStateFromString(o), err |-> FALSE]

\* What ImageList can answer: an error, no image, or an image with an ID.
ImageListOutcomes ==
    { [err |-> TRUE, ids |-> <<>>], [err |-> FALSE, ids |-> <<>>],
      [err |-> FALSE, ids |-> <<"id1">>], [err |-> FALSE, ids |-> <<"id2">>] }

\* Mutant of queryLocalImage: an error of ImageList counts as an image that
\* is there.
queryLocalImageErrorAvailable(o) ==
    IF o.err THEN [avail |-> TRUE, id |-> ""]
    ELSE IF Len(o.ids) = 0 THEN [avail |-> FALSE, id |-> ""]
    ELSE [avail |-> TRUE, id |-> o.ids[1]]

\* Mutant of queryLocalImage: the ID of the image is not returned.
queryLocalImageNoId(o) ==
    IF o.err \/ Len(o.ids) = 0
    THEN [avail |-> FALSE, id |-> ""]
    ELSE [avail |-> TRUE, id |-> ""]

\* dockerClient.queryLocalImage on an answer of ImageList.
queryLocalImage(o) ==
    IF o.err \/ Len(o.ids) = 0
    THEN [avail |-> FALSE, id |-> ""]
    ELSE [avail |-> TRUE, id |-> o.ids[1]]

\* Mutant of the check after the pull: the pull is trusted.
unavailableAfterPullIgnored(avail) == "nil"

\* pullImage's check of the image list after the pull: the error it returns,
\* "nil" for none.
unavailableAfterPull(avail) ==
    IF ~avail THEN "image not available locally after a successful pull"
    ELSE "nil"

\* Mutant of the verbosity of the pull: progress is shown in debug mode only.
showPullProgressDebugOnly(dbg, avail) == dbg

\* pullImage's showPullProgress: d.debug || !avail.
showPullProgress(dbg, avail) == dbg \/ ~avail

\* dockerClient.pullImage, given debug and the answers of the runtime: the
\* image list before the pull, whether ImagePull and the reading of its
\* progress stream fail, the image list after the pull.  The result is the
\* error ("nil" for none), whether progress was to be shown, what was done
\* with the progress stream (displayed on the terminal, copied to
\* io.Discard, or none when ImagePull returned no stream), and the notices.
pullImage(dbg, before, pullFails, streamFails, after) ==
    LET q1 == queryLocalImage(before)
        show == showPullProgress(dbg, q1.avail)
        stream == IF show THEN "displayed" ELSE "discarded"
        pulling == IF ~show THEN <<>>
                   ELSE IF ~q1.avail THEN << [tier |-> "info", msg |-> "Pulling image"] >>
                   ELSE << [tier |-> "debug", msg |-> "Pulling image"] >>
        q2 == queryLocalImage(after)
    IN  IF pullFails
        THEN [err |-> "failed to pull the image", show |-> show,
              stream |-> "none", notices |-> <<>>]
        ELSE IF streamFails
        THEN [err |-> "failed while pulling the image",
              show |-> show, stream |-> stream, notices |-> pulling]
        ELSE IF unavailableAfterPull(q2.avail) # "nil"
        THEN [err |-> unavailableAfterPull(q2.avail),
              show |-> show, stream |-> stream, notices |-> pulling]
        ELSE IF show
        THEN [err |-> "nil", show |-> TRUE, stream |-> stream,
              notices |-> pulling]
        ELSE IF q2.id # q1.id
        THEN [err |-> "nil", show |-> FALSE, stream |-> stream,
              notices |-> << [tier |-> "info",
                              msg |-> "Pulled newer version of image",
                              id |-> q2.id] >>]
        ELSE [err |-> "nil", show |-> FALSE, stream |-> stream,
              notices |-> <<>>]


(***************************************************************************)
(* The container runtime behind the docker client.                         *)
(***************************************************************************)
\* The runtime's state of the current container is either one of the
\* container states, when the runtime is followed, or RuntimeFree, when
\* every answer the API allows is taken into account.
RuntimeFree == "free"

RuntimeStates ==
    { "NotFound", "Created", "Running", "Paused", "Restarting", "Removing",
      "Exited", "Dead" }

\* The answer of ContainerInspect for a container in state r of a runtime
\* that is followed.
inspectOf(r) ==
    CASE r = "NotFound" -> "ErrNotFound"
      [] r = "Created" -> "created"
      [] r = "Running" -> "running"
      [] r = "Paused" -> "paused"
      [] r = "Restarting" -> "restarting"
      [] r = "Removing" -> "removing"
      [] r = "Exited" -> "exited"
      [] r = "Dead" -> "dead"

\* The answers ContainerInspect(ctx, name) can give: an error once the context
\* is done, the container's state when the runtime is followed.
inspectAnswers(r, done) ==
    IF done THEN { "ErrOther" }
    ELSE IF r = RuntimeFree THEN InspectOutcomes
    ELSE { inspectOf(r) }

\* Mutant of the calls of the docker client: the context is not handed on,
\* so that a call can succeed after the context is done.
callFailsWithoutContext(r, done) ==
    IF r = RuntimeFree THEN BOOLEAN ELSE { FALSE }

\* Whether a call client.X(ctx, ...) of the docker client fails: it does once
\* the context is done, it may when the runtime is free, and it does not
\* when the runtime is followed and the call is one the state allows.
callFails(r, done) ==
    IF done THEN { TRUE }
    ELSE IF r = RuntimeFree THEN BOOLEAN
    ELSE { FALSE }

\* ContainerCreate fails on a name that is taken, ContainerStart on a
\* container that is not there.
createFails(r, done) ==
    IF r \in { RuntimeFree, "NotFound" } THEN callFails(r, done) ELSE { TRUE }

startFails(r, done) ==
    IF r \in { RuntimeFree, "Created", "Exited" } THEN callFails(r, done)
    ELSE { TRUE }

\* Mutant of what a failed step leaves behind: the container is removed.
leftBehindNothing(r) ==
    IF r = RuntimeFree THEN RuntimeFree ELSE "NotFound"

\* The state of the container in the runtime when a step of startInternal
\* after the creation fails: startInternal returns the error and calls
\* nothing else, so the container is left as the runtime has it.
leftBehind(r) == r

\* The state a successful call leaves the container in, in a runtime that
\* is followed: stop and kill lead to Exited, remove to NotFound, create
\* to Created, start to Running.
runtimeAfter(r, call) ==
    IF r = RuntimeFree THEN RuntimeFree
    ELSE CASE call \in { "stop", "kill" } -> "Exited"
           [] call = "remove" -> "NotFound"
           [] call = "create" -> "Created"
           [] call = "start" -> "Running"

\* The answers of the runtime to the calls of one pullImage: the image list
\* before the pull, ImagePull, the progress stream, the image list after.
imagePullAnswers(r, done) ==
    IF done
    THEN { [before |-> [err |-> TRUE, ids |-> <<>>], pullFails |-> TRUE,
            streamFails |-> TRUE, after |-> [err |-> TRUE, ids |-> <<>>]] }
    ELSE { a \in [before : ImageListOutcomes, pullFails : BOOLEAN,
                  streamFails : BOOLEAN, after : ImageListOutcomes] :
             r # RuntimeFree =>
                 /\ ~a.before.err /\ ~a.pullFails /\ ~a.streamFails
                 /\ ~a.after.err /\ Len(a.after.ids) > 0 }

\* The warnings the runtime returns with a creation that succeeds: those of
\* ContainerCreate (resp.Warnings, a list) for the containers, and that of
\* NetworkCreate (resp.Warning, a string) for the networks, it is set to
\* warn about.
NoWarnings == [create |-> {}, network |-> {}]

containerCreateWarnings(w, n) ==
    IF n \in w.create THEN << "first warning", "second warning" >> ELSE <<>>

networkCreateWarning(w, n) == IF n \in w.network THEN "warning" ELSE ""

\* Mutant of createContainer: warnings make the creation fail.
createContainerWarningsFatal(n, fails, warnings) ==
    IF fails
    THEN [err |-> "failed to create the container", notices |-> <<>>]
    ELSE IF Len(warnings) > 0
    THEN [err |-> "failed to create the container",
          notices |->
              << [msg |-> "Warnings encountered while creating the container",
                  name |-> n,
                  lines |-> [i \in 1..Len(warnings) |->
                               [no |-> i, text |-> warnings[i]]]] >>]
    ELSE [err |-> "nil", notices |-> <<>>]

\* dockerClient.createContainer, given whether ContainerCreate failed and the
\* warnings of its response: the error ("nil" for none) and the notice, which
\* numbers the warnings from 1.
createContainer(n, fails, warnings) ==
    IF fails
    THEN [err |-> "failed to create the container", notices |-> <<>>]
    ELSE [err |-> "nil",
          notices |->
              IF Len(warnings) > 0
              THEN << [msg |-> "Warnings encountered while creating the container",
                       name |-> n,
                       lines |-> [i \in 1..Len(warnings) |->
                                    [no |-> i, text |-> warnings[i]]]] >>
              ELSE <<>>]

\* dockerClient.createNetwork, given whether NetworkCreate failed and the
\* warning of its response.
createNetwork(n, fails, warning) ==
    IF fails
    THEN [err |-> "failed to create the network", notices |-> <<>>]
    ELSE [err |-> "nil",
          notices |->
              IF warning # ""
              THEN << [msg |-> "Warning encountered while creating the network",
                       name |-> n, lines |-> warning] >>
              ELSE <<>>]

\* The answers of NetworkList(ctx, name filter): whether the call fails.
networkListFails(r, done) == callFails(r, done)

\* Mutant of the existence check: no network is found.
networkExistsNever(listFails, present) == FALSE

\* dockerClient.networkExists, given whether NetworkList failed and whether
\* the runtime has the network: an error counts as no network.
networkExists(listFails, present) == ~listFails /\ present

(***************************************************************************)
(* container.start and the batch driver.                                   *)
(***************************************************************************)
\* Mutant of the batch driver: it works on the first container throughout.
curFirst == resolved[1]

\* The container being processed.
cur == resolved[idx]

\* Mutant of the admission check: every container is allowed.
isAllowedAlways(c) == TRUE

\* container.isAllowedOnCurrentHost: a lookup in the host's map of allowed
\* containers, which has no entry (false) for a container not listed.
isAllowedOnCurrentHost(c) == name(c) \in dep.allowed

\* Mutant of the return for a container not allowed: an error.
notAllowedReturnsError(c) ==
    [failed |-> TRUE, name |-> containerName(c.group, c.name),
     reason |-> "not allowed to run on host"]

\* The value container.start returns when the host does not allow c.
notAllowedReturn(c) == [failed |-> FALSE]

\* Mutants of the error of container.start: the container's name without
\* its group; the reason of the failing step dropped.
startErrorBareName(c, err) == [failed |-> TRUE, name |-> c.name, reason |-> err]

startErrorNoReason(c, err) ==
    [failed |-> TRUE, name |-> name(c), reason |-> "failed"]

\* The value container.start returns when startInternal returned err.
startError(c, err) == [failed |-> TRUE, name |-> name(c), reason |-> err]

\* The value container.start returns when startInternal returned nil.
startedReturn(c) == [failed |-> FALSE]

\* Mutant of the batch driver: the first failure ends the batch.
RecordStopsOnFailure(ret) ==
    /\ errors' = IF ret.failed THEN Append(errors, ret) ELSE errors
    /\ idx' = IF ret.failed THEN Len(resolved) + 1 ELSE idx + 1
    /\ pc' = "loop"

\* The batch driver takes the value container.start returned for the current
\* container: a failure is recorded, and the next container is taken up.
Record(ret) ==
    /\ errors' = IF ret.failed THEN Append(errors, ret) ELSE errors
    /\ idx' = idx + 1
    /\ pc' = "loop"

\* The aggregate error of the batch: the recorded failures, numbered from 1.
aggregate(errs) ==
    [kind |-> "aggregate", count |-> Len(errs),
     lines |-> [i \in 1..Len(errs) |->
                  [no |-> i, name |-> errs[i].name, reason |-> errs[i].reason]]]

NoResult == [kind |-> "none"]
Success == [kind |-> "ok"]

purgeLocals == <<purged, stoppedOnceAlready, attemptsRemaining, st>>
purgeHistory == <<calls, stuck>>

\* What no action of the start command changes: the context, the number of
\* the invocation, the inputs and results of the functions that are run on
\* their own, and the warnings the runtime is set to return.
aside == <<ctxDone, invocation, config, dockerConfig, images, pullResult,
           warn>>

\* The calls made for the current container, by kind; wait is the sleep of
\* purge, afterDone counts the calls and sleeps begun after the context was
\* done, killFailed the kills that returned an error, and missingAfterPull
\* the pulls that ran to their end with the image not listed after them.
NoCalls ==
    [pull |-> 0, query |-> 0, stop |-> 0, kill |-> 0, remove |-> 0,
     wait |-> 0, create |-> 0, exists |-> 0, netcreate |-> 0, connect |-> 0,
     start |-> 0, afterDone |-> 0, killFailed |-> 0, missingAfterPull |-> 0]

\* Whether the runtime's answers a to one pullImage are those of a pull that
\* ran to its end after which the image is not listed.
missingAfterPull(a) ==
    ~a.pullFails /\ ~a.streamFails /\ (a.after.err \/ Len(a.after.ids) = 0)

Called(what) ==
    calls' = [calls EXCEPT ![what] = @ + 1,
                           !.afterDone = IF ctxDone THEN @ + 1 ELSE @]

Touch == touched' = touched \cup { name(cur) }

\* The locals of the previous container's purge are gone, and the history of
\* its purge is cleared, when container.start is called for the next one.
ResetPurge ==
    /\ purged' = FALSE
    /\ stoppedOnceAlready' = FALSE
    /\ attemptsRemaining' = 0
    /\ st' = "none"
    /\ calls' = NoCalls
    /\ stuck' = "none"

\* The pre-flight: the selector is resolved to the ordered containers, or the
\* command fails before any container is processed.
QueryContainers ==
    /\ pc = "query"
    /\ IF queryError(dep, selector) # "none"
       THEN /\ result' = [kind |-> queryError(dep, selector)]
            /\ pc' = "done"
            /\ UNCHANGED resolved
       ELSE /\ resolved' \in containerMapToList(Selected(dep, selector))
            /\ pc' = "loop"
            /\ UNCHANGED result
    /\ UNCHANGED <<dep, selector, idx, purgeLocals, netsLeft, networks, errors,
                   notices, purgeHistory, touched, processed, debug, curNet,
                   rt, nethist, aside>>

\* container.start on a container the host does not allow: the notice, and
\* nil is returned.
StartNotAllowed ==
    /\ pc = "loop"
    /\ idx <= Len(resolved)
    /\ ~isAllowedOnCurrentHost(cur)
    /\ notices' = Append(notices, [msg |-> "not allowed to run on host",
                                   name |-> name(cur)])
    /\ processed' = Append(processed, name(cur))
    /\ Record(notAllowedReturn(cur))
    /\ ResetPurge
    /\ UNCHANGED <<dep, selector, resolved, netsLeft, networks, result,
                   touched, debug, curNet, rt, nethist, aside>>

\* container.start on an allowed container: startInternal is entered.
StartAllowed ==
    /\ pc = "loop"
    /\ idx <= Len(resolved)
    /\ isAllowedOnCurrentHost(cur)
    /\ processed' = Append(processed, name(cur))
    /\ pc' = "pull"
    /\ ResetPurge
    /\ UNCHANGED <<dep, selector, resolved, idx, netsLeft, networks, errors,
                   result, notices, touched, debug, curNet, rt, nethist,
                   aside>>

\* startInternal step 2: the image is pulled; on success purge is entered
\* with its locals initialised.
PullImage ==
    /\ pc = "pull"
    /\ Touch
    /\ \E a \in imagePullAnswers(rt, ctxDone) :
         LET r == pullImage(debug, a.before, a.pullFails, a.streamFails,
                            a.after)
         IN  /\ calls' = [calls EXCEPT
                    !.pull = @ + 1,
                    !.afterDone = IF ctxDone THEN @ + 1 ELSE @,
                    !.missingAfterPull =
                        IF missingAfterPull(a) THEN @ + 1 ELSE @]
             /\ IF r.err # "nil"
                THEN /\ Record(startError(cur, r.err))
                     /\ UNCHANGED <<purgeLocals, stuck>>
                ELSE /\ pc' = "purge"
                     /\ purged' = FALSE
                     /\ stoppedOnceAlready' = FALSE
                     /\ attemptsRemaining' = stopAndRemoveAttempts
                     /\ UNCHANGED <<st, stuck, errors, idx>>
    /\ UNCHANGED <<dep, selector, resolved, netsLeft, networks, result,
                   notices, processed, debug, curNet, rt, nethist, aside>>

(***************************************************************************)
(* container.purge.                                                        *)
(***************************************************************************)
\* Mutants of the loop condition: one attempt short; not stopping once purged.
purgeLoopContinuesShort(p, remaining) == ~p /\ remaining > 1

purgeLoopContinuesIgnoringPurged(p, remaining) == remaining > 0

\* The condition of purge's loop.
purgeLoopContinues(p, remaining) == ~p /\ remaining > 0

\* Mutant of the switch: the kill comes first, the stop after it.
purgeActionKillFirst(state, stoppedOnce) ==
    CASE state = "NotFound" -> "purged"
      [] state \in { "Running", "Paused", "Restarting" } ->
            IF ~stoppedOnce THEN "kill" ELSE "stop"
      [] state \in { "Created", "Exited", "Dead" } -> "remove"
      [] state = "Removing" -> "wait"
      [] OTHER -> "fatal"

\* Mutant of the switch: a container that does not run is stopped before it
\* is removed.
purgeActionStopBeforeRemove(state, stoppedOnce) ==
    CASE state = "NotFound" -> "purged"
      [] state \in { "Running", "Paused", "Restarting" } ->
            IF ~stoppedOnce THEN "stop" ELSE "kill"
      [] state \in { "Created", "Exited", "Dead" } ->
            IF ~stoppedOnce THEN "stop" ELSE "remove"
      [] state = "Removing" -> "wait"
      [] OTHER -> "fatal"

\* Mutant of the switch: a container that is being removed is removed again.
purgeActionRemoveRemoving(state, stoppedOnce) ==
    CASE state = "NotFound" -> "purged"
      [] state \in { "Running", "Paused", "Restarting" } ->
            IF ~stoppedOnce THEN "stop" ELSE "kill"
      [] state \in { "Created", "Exited", "Dead", "Removing" } -> "remove"
      [] OTHER -> "fatal"

\* Mutant of the budget: a turn takes none of it.
attemptsAfterTurnKept(remaining) == remaining

\* Mutant of the budget: a turn takes two units of it.
attemptsAfterTurnTwoUnits(remaining) == remaining - 2

\* The budget after a turn of the loop has begun (attemptsRemaining--).
attemptsAfterTurn(remaining) == remaining - 1

\* Mutants of the switch: a stop whenever the container runs; a wait and
\* another turn on a state the switch has no case for; a container that
\* does not run taken as purged, with no remove.
purgeActionAlwaysStop(state, stoppedOnce) ==
    CASE state = "NotFound" -> "purged"
      [] state \in { "Running", "Paused", "Restarting" } -> "stop"
      [] state \in { "Created", "Exited", "Dead" } -> "remove"
      [] state = "Removing" -> "wait"
      [] OTHER -> "fatal"

purgeActionRetryUnknown(state, stoppedOnce) ==
    CASE state = "NotFound" -> "purged"
      [] state \in { "Running", "Paused", "Restarting" } ->
            IF ~stoppedOnce THEN "stop" ELSE "kill"
      [] state \in { "Created", "Exited", "Dead" } -> "remove"
      [] OTHER -> "wait"

purgeActionNoRemove(state, stoppedOnce) ==
    CASE state \in { "NotFound", "Created", "Exited", "Dead" } -> "purged"
      [] state \in { "Running", "Paused", "Restarting" } ->
            IF ~stoppedOnce THEN "stop" ELSE "kill"
      [] state = "Removing" -> "wait"
      [] OTHER -> "fatal"

\* The branch purge's switch takes on the state read, given whether a stop
\* was issued earlier in this purge.
purgeAction(state, stoppedOnce) ==
    CASE state = "NotFound" -> "purged"
      [] state \in { "Running", "Paused", "Restarting" } ->
            IF ~stoppedOnce THEN "stop" ELSE "kill"
      [] state \in { "Created", "Exited", "Dead" } -> "remove"
      [] state = "Removing" -> "wait"
      [] OTHER -> "fatal"

\* Mutant of the final check: a container that no longer runs passes.
purgeFinalErrorOnlyRunning(state) ==
    IF state \in { "Running", "Paused", "Restarting" }
    THEN "failed to stop and remove container after attempts"
    ELSE "nil"

\* Mutants of the final check: any state passes; NotFound fails as well.
purgeFinalErrorNever(state) == "nil"

purgeFinalErrorAlways(state) ==
    "failed to stop and remove container after attempts"

\* The error purge returns after its final state query, "nil" for none.
purgeFinalError(state) ==
    IF state # "NotFound"
    THEN "failed to stop and remove container after attempts"
    ELSE "nil"

\* Mutant of the kill: its error is returned by purge.
purgeKillErrorReturned(fails) ==
    IF fails THEN "failed to kill the container" ELSE "nil"

\* What purge makes of the kill's outcome (_ = docker.killContainer): it
\* returns no error, whether the kill failed or not.
purgeKillError(fails) == "nil"

\* The history of the states this purge has read.
Observe(state) ==
    stuck' = IF stuck \in { "none", state } THEN state ELSE "mixed"

\* One turn of the loop, first half: the budget is decremented and the state
\* of the container is queried.
PurgeQuery ==
    /\ pc = "purge"
    /\ purgeLoopContinues(purged, attemptsRemaining)
    /\ attemptsRemaining' = attemptsAfterTurn(attemptsRemaining)
    /\ Touch
    /\ Called("query")
    /\ \E o \in inspectAnswers(rt, ctxDone) :
         LET r == getContainerState(o)
         IN  IF r.err
             THEN /\ Record(startError(cur, "failed to retrieve the container state"))
                  /\ UNCHANGED <<st, stuck>>
             ELSE /\ st' = r.state
                  /\ Observe(r.state)
                  /\ pc' = "purge_switch"
                  /\ UNCHANGED <<errors, idx>>
    /\ UNCHANGED <<dep, selector, resolved, purged, stoppedOnceAlready,
                   netsLeft, networks, result, notices, processed, debug,
                   curNet, rt, nethist, aside>>

\* One turn of the loop, second half: the switch on the state read.
PurgeSwitch ==
    /\ pc = "purge_switch"
    /\ LET a == purgeAction(st, stoppedOnceAlready)
       IN  \/ /\ a = "purged"
              /\ purged' = TRUE
              /\ pc' = "purge"
              /\ UNCHANGED <<stoppedOnceAlready, calls, errors, idx, rt>>
           \/ /\ a = "stop"
              /\ Called("stop")
              /\ \E fails \in callFails(rt, ctxDone) :
                   IF ~fails
                   THEN /\ stoppedOnceAlready' = TRUE
                        /\ rt' = runtimeAfter(rt, "stop")
                        /\ pc' = "purge"
                        /\ UNCHANGED <<errors, idx>>
                   ELSE /\ Record(startError(cur, "failed to stop the container"))
                        /\ UNCHANGED <<stoppedOnceAlready, rt>>
              /\ UNCHANGED purged
           \/ /\ a = "kill"
              /\ \E fails \in callFails(rt, ctxDone) :
                   /\ calls' = [calls EXCEPT
                          !.kill = @ + 1,
                          !.afterDone = IF ctxDone THEN @ + 1 ELSE @,
                          !.killFailed = IF fails THEN @ + 1 ELSE @]
                   /\ rt' = IF fails THEN rt ELSE runtimeAfter(rt, "kill")
                   /\ IF purgeKillError(fails) = "nil"
                      THEN /\ pc' = "purge_sleep"
                           /\ UNCHANGED <<errors, idx>>
                      ELSE Record(startError(cur, purgeKillError(fails)))
              /\ UNCHANGED <<purged, stoppedOnceAlready>>
           \/ /\ a = "remove"
              /\ Called("remove")
              /\ \E fails \in callFails(rt, ctxDone) :
                   IF ~fails
                   THEN /\ rt' = runtimeAfter(rt, "remove")
                        /\ pc' = "purge"
                        /\ UNCHANGED <<errors, idx>>
                   ELSE /\ Record(startError(cur, "failed to remove the container"))
                        /\ UNCHANGED rt
              /\ UNCHANGED <<purged, stoppedOnceAlready>>
           \/ /\ a = "wait"
              /\ pc' = "purge_sleep"
              /\ UNCHANGED <<purged, stoppedOnceAlready, calls, errors, idx,
                             rt>>
           \/ /\ a = "fatal"
              /\ pc' = "aborted"
              /\ UNCHANGED <<purged, stoppedOnceAlready, calls, errors, idx,
                             rt>>
    /\ UNCHANGED <<dep, selector, resolved, attemptsRemaining, st, netsLeft,
                   networks, result, notices, touched, stuck, processed, debug,
                   curNet, nethist, aside>>

\* time.Sleep(stopAndRemoveKillDelay), after a kill or on Removing.
PurgeSleep ==
    /\ pc = "purge_sleep"
    /\ Called("wait")
    /\ pc' = "purge"
    /\ UNCHANGED <<dep, selector, resolved, idx, purgeLocals, netsLeft,
                   networks, errors, result, notices, touched, stuck,
                   processed, debug, curNet, rt, nethist, aside>>

\* After the loop: purged, or one final state query decides.
PurgeReturn ==
    /\ pc = "purge"
    /\ ~purgeLoopContinues(purged, attemptsRemaining)
    /\ IF purged
       THEN /\ pc' = "create"
            /\ UNCHANGED <<st, calls, stuck, touched, errors, idx>>
       ELSE /\ Touch
            /\ Called("query")
            /\ \E o \in inspectAnswers(rt, ctxDone) :
                 LET r == getContainerState(o)
                 IN  IF r.err
                     THEN /\ Record(startError(cur, "failed to retrieve the container state"))
                          /\ UNCHANGED <<st, stuck>>
                     ELSE /\ st' = r.state
                          /\ Observe(r.state)
                          /\ IF purgeFinalError(r.state) # "nil"
                             THEN Record(startError(cur, purgeFinalError(r.state)))
                             ELSE /\ pc' = "create"
                                  /\ UNCHANGED <<errors, idx>>
    /\ UNCHANGED <<dep, selector, resolved, purged, stoppedOnceAlready,
                   attemptsRemaining, netsLeft, networks, result, notices,
                   processed, debug, curNet, rt, nethist, aside>>

(***************************************************************************)
(* container.startInternal after the purge.                                *)
(***************************************************************************)
\* Step 4: the container is created.
CreateContainer ==
    /\ pc = "create"
    /\ Touch
    /\ Called("create")
    /\ \E fails \in createFails(rt, ctxDone) :
         LET r == createContainer(name(cur), fails,
                                  containerCreateWarnings(warn, name(cur)))
         IN  /\ notices' = notices \o r.notices
             /\ IF r.err = "nil"
                THEN /\ netsLeft' = cur.nets
                     /\ rt' = runtimeAfter(rt, "create")
                     /\ pc' = "network"
                     /\ UNCHANGED <<errors, idx>>
                ELSE /\ Record(startError(cur, r.err))
                     /\ UNCHANGED <<netsLeft, rt>>
    /\ UNCHANGED <<dep, selector, resolved, purgeLocals, networks, result,
                   stuck, processed, debug, curNet, nethist, aside>>

\* The calls made for the networks in this run: the createNetwork calls by
\* network, and whether an existence check failed, and so reported absent, a
\* network that the runtime has.
NetworkNames == { "net1", "net2" }

NoNetHistory ==
    [creates |-> [n \in NetworkNames |-> 0], misreported |-> FALSE]

\* Step 5, first half, for one endpoint: the network is created unless the
\* runtime lists it (a failing list counts as not listed).  The runtime may
\* accept or refuse the creation of a network it already has.
EnsureNetwork ==
    /\ pc = "network"
    /\ netsLeft # {}
    /\ Touch
    /\ \E n \in netsLeft, listFails \in networkListFails(rt, ctxDone) :
         /\ curNet' = n
         /\ IF networkExists(listFails, n \in networks)
            THEN /\ pc' = "connect"
                 /\ Called("exists")
                 /\ UNCHANGED <<networks, errors, idx, nethist, notices, rt>>
            ELSE /\ calls' = [calls EXCEPT
                                !.exists = @ + 1, !.netcreate = @ + 1,
                                !.afterDone = IF ctxDone THEN @ + 2 ELSE @]
                 /\ nethist' = [creates |-> [nethist.creates EXCEPT ![n] = @ + 1],
                                misreported |-> nethist.misreported
                                    \/ (listFails /\ n \in networks)]
                 /\ \E fails \in callFails(rt, ctxDone) :
                      LET r == createNetwork(n, fails,
                                             networkCreateWarning(warn, n))
                      IN  /\ notices' = notices \o r.notices
                          /\ IF r.err = "nil"
                             THEN /\ networks' = networks \cup { n }
                                  /\ pc' = "connect"
                                  /\ UNCHANGED <<errors, idx, rt>>
                             ELSE /\ Record(startError(cur, r.err))
                                  /\ rt' = leftBehind(rt)
                                  /\ UNCHANGED networks
    /\ UNCHANGED <<dep, selector, resolved, purgeLocals, netsLeft, result,
                   stuck, processed, debug, aside>>

\* Step 5, second half: the container is connected to the network.
ConnectNetwork ==
    /\ pc = "connect"
    /\ Touch
    /\ Called("connect")
    /\ \E fails \in callFails(rt, ctxDone) :
         IF ~fails
         THEN /\ netsLeft' = netsLeft \ { curNet }
              /\ pc' = "network"
              /\ UNCHANGED <<errors, idx, rt>>
         ELSE /\ Record(startError(cur, "failed to connect container to network"))
              /\ rt' = leftBehind(rt)
              /\ UNCHANGED netsLeft
    /\ UNCHANGED <<dep, selector, resolved, purgeLocals, networks, result,
                   notices, stuck, processed, debug, curNet, nethist, aside>>

\* Mutant of the warning: none for a container without endpoints.
noEndpointsWarningNever(c) == <<>>

\* The warning of startInternal after the loop over the endpoints.
noEndpointsWarning(c) ==
    IF Cardinality(c.nets) = 0
    THEN << [msg |-> "no network endpoints configured", name |-> name(c)] >>
    ELSE <<>>

\* Step 6: the container is started, and container.start reports it.
StartContainer ==
    /\ pc = "network"
    /\ netsLeft = {}
    /\ Touch
    /\ Called("start")
    /\ LET warned == notices \o noEndpointsWarning(cur)
       IN  \E fails \in startFails(rt, ctxDone) :
             IF ~fails
             THEN /\ notices' = Append(warned, [msg |-> "Started container",
                                                name |-> name(cur)])
                  /\ rt' = runtimeAfter(rt, "start")
                  /\ Record(startedReturn(cur))
             ELSE /\ notices' = warned
                  /\ rt' = leftBehind(rt)
                  /\ Record(startError(cur, "failed to start the container"))
    /\ UNCHANGED <<dep, selector, resolved, purgeLocals, netsLeft, networks,
                   result, stuck, processed, debug, curNet, nethist, aside>>

\* The batch driver after the last container: the aggregate error if any
\* failure was recorded, success otherwise.
Finish ==
    /\ pc = "loop"
    /\ idx > Len(resolved)
    /\ result' = IF Len(errors) > 0 THEN aggregate(errors) ELSE Success
    /\ pc' = "done"
    /\ UNCHANGED <<dep, selector, resolved, idx, purgeLocals, netsLeft,
                   networks, errors, notices, purgeHistory, touched, processed,
                   debug, curNet, rt, nethist, aside>>

(***************************************************************************)
(* generateDockerConfigs.                                                  *)
(***************************************************************************)
\* The value of an input or a result of a function that is not run.
Unset == [unset |-> TRUE]

MaxEnv == 2

\* The variables FOO and BAR and the values bar and baz, as bytes.
EnvNames == { <<70, 79, 79>>, <<66, 65, 82>> }
EnvValues == { <<98, 97, 114>>, <<98, 97, 122>> }

\* A list of env entries of the configuration, at most MaxEnv long.
EnvLists ==
    UNION { [1..n -> [var : EnvNames, value : EnvValues]] : n \in 0..MaxEnv }

MaxLabels == 2

\* The labels app and tier, as the lists of the configuration hold them.
LabelNames == { "app", "tier" }
LabelValues == { "x", "y" }

LabelLists ==
    UNION { [1..n -> [Name : LabelNames, Value : LabelValues]] :
              n \in 0..MaxLabels }

\* The settings with a global default, each unset ("" or 0) or set: those of
\* the container's configuration and, named global..., those of the global
\* container configuration.
Settings ==
    [domainName : { "", "c.example" }, globalDomainName : { "", "g.example" },
     stopSignal : { "", "SIGINT" }, globalStopSignal : { "", "SIGQUIT" },
     stopTimeout : { 0, 5 }, globalStopTimeout : { 0, 8 },
     restartPolicy : { "", "always" },
     globalRestartPolicy : { "", "unless-stopped" }]

NoSettings ==
    [domainName |-> "", globalDomainName |-> "", stopSignal |-> "",
     globalStopSignal |-> "", stopTimeout |-> 0, globalStopTimeout |-> 0,
     restartPolicy |-> "", globalRestartPolicy |-> ""]

\* The configuration generateDockerConfigs reads: the env and label lists
\* and the settings s, of the container and of the global defaults.
Config(globalEnv, env, globalLabels, labelList, s) ==
    [globalEnv |-> globalEnv, env |-> env, globalLabels |-> globalLabels,
     labels |-> labelList, domainName |-> s.domainName,
     globalDomainName |-> s.globalDomainName, stopSignal |-> s.stopSignal,
     globalStopSignal |-> s.globalStopSignal, stopTimeout |-> s.stopTimeout,
     globalStopTimeout |-> s.globalStopTimeout,
     restartPolicy |-> s.restartPolicy,
     globalRestartPolicy |-> s.globalRestartPolicy]

\* The configurations: the global container defaults and the container's
\* own, differing in the env lists, in the label lists, in the settings.
EnvConfigs ==
    { Config(g, e, <<>>, <<>>, NoSettings) : g \in EnvLists, e \in EnvLists }

LabelConfigs ==
    { Config(<<>>, <<>>, g, l, NoSettings) : g \in LabelLists, l \in LabelLists }

SettingsConfigs == { Config(<<>>, <<>>, <<>>, <<>>, s) : s \in Settings }

\* m[e.Var] = e.Value for each e of the list, in the list's order.
RECURSIVE putAll(_, _)
putAll(m, entries) ==
    IF entries = <<>> THEN m
    ELSE LET e == Head(entries)
             m1 == [k \in DOMAIN m \cup { e.var } |->
                      IF k = e.var THEN e.value ELSE m[k]]
         IN  putAll(m1, Tail(entries))

\* fmt.Sprintf("%s=%s", k, v); 61 is the byte '='.
envEntry(k, v) == k \o <<61>> \o v

\* The sequences that hold each element of S once: the orders in which a
\* range over a map can deliver its entries.
RECURSIVE Orderings(_)
Orderings(S) ==
    IF S = {} THEN { <<>> }
    ELSE UNION { { <<x>> \o t : t \in Orderings(S \ { x }) } : x \in S }

\* Mutant of envVars: the global defaults put last.
envVarsGlobalLast(cfg) ==
    LET env == putAll(putAll(<<>>, cfg.env), cfg.globalEnv)
    IN  { [i \in 1..Len(o) |-> envEntry(o[i], env[o[i]])] :
            o \in Orderings(DOMAIN env) }

\* container.envVars: the results it can return, one for each order of the
\* range over the map.
envVars(cfg) ==
    LET env == putAll(putAll(<<>>, cfg.globalEnv), cfg.env)
    IN  { [i \in 1..Len(o) |-> envEntry(o[i], env[o[i]])] :
            o \in Orderings(DOMAIN env) }

\* res[l.Name] = l.Value for each l of the list, in the list's order.
RECURSIVE putLabels(_, _)
putLabels(m, entries) ==
    IF entries = <<>> THEN m
    ELSE LET l == Head(entries)
             m1 == [k \in DOMAIN m \cup { l.Name } |->
                      IF k = l.Name THEN l.Value ELSE m[k]]
         IN  putLabels(m1, Tail(entries))

\* container.labels: the map of the container's own labels.
labels(cfg) == putLabels(<<>>, cfg.labels)

\* container.domainName: the global default when the container sets none.
domainName(cfg) ==
    IF Len(cfg.domainName) = 0 THEN cfg.globalDomainName ELSE cfg.domainName

\* container.stopSignal: the container's setting.
stopSignal(cfg) == cfg.stopSignal

\* Mutant of container.stopTimeout: the container's setting as it is.
stopTimeoutNoFallback(cfg) == cfg.stopTimeout

\* container.stopTimeout: the global default when the container's is 0.
stopTimeout(cfg) ==
    IF cfg.stopTimeout = 0 THEN cfg.globalStopTimeout ELSE cfg.stopTimeout

\* container.restartPolicy: the global default when the container sets none.
restartPolicy(cfg) ==
    [Name |-> IF Len(cfg.restartPolicy) = 0 THEN cfg.globalRestartPolicy
              ELSE cfg.restartPolicy]

\* generateDockerConfigs, as far as the environment, the labels and the
\* settings with a global default go.
GenerateDockerConfigs ==
    /\ config # Unset
    /\ dockerConfig = Unset
    /\ \E e \in envVars(config) :
         dockerConfig' = [Env |-> e,
                          Domainname |-> domainName(config),
                          Labels |-> labels(config),
                          StopSignal |-> stopSignal(config),
                          StopTimeout |-> stopTimeout(config),
                          RestartPolicy |-> restartPolicy(config)]
    /\ UNCHANGED <<dep, selector, resolved, pc, idx, purgeLocals, netsLeft,
                   networks, errors, result, notices, purgeHistory, touched,
                   processed, debug, curNet, rt, nethist, ctxDone, invocation,
                   config, images, pullResult, warn>>

(***************************************************************************)
(* pullImage on its own.                                                   *)
(***************************************************************************)
RunPullImage ==
    /\ images # Unset
    /\ pullResult = Unset
    /\ pullResult' = pullImage(debug, images.before, images.pullFails,
                               images.streamFails, images.after)
    /\ UNCHANGED <<dep, selector, resolved, pc, idx, purgeLocals, netsLeft,
                   networks, errors, result, notices, purgeHistory, touched,
                   processed, debug, curNet, rt, nethist, ctxDone, invocation,
                   config, dockerConfig, images, warn>>

(***************************************************************************)
(* The context and repeated invocations.                                   *)
(***************************************************************************)
MaxInvocations == 2

\* The context handed to the command is cancelled or its deadline passes.
Cancel ==
    /\ ~ctxDone
    /\ pc \notin { "done", "aborted" }
    /\ ctxDone' = TRUE
    /\ UNCHANGED <<dep, selector, resolved, pc, idx, purgeLocals, netsLeft,
                   networks, errors, result, notices, purgeHistory, touched,
                   processed, debug, curNet, rt, nethist, invocation, config,
                   dockerConfig, images, pullResult, warn>>

\* The context is done while pullImage runs: the read of the progress
\* stream, or the image list after it, returns the context's error.
CancelDuringPull ==
    /\ ~ctxDone
    /\ pc = "pull"
    /\ ctxDone' = TRUE
    /\ Touch
    /\ \E a \in imagePullAnswers(rt, FALSE) :
         /\ ~a.pullFails
         /\ a.streamFails \/ a.after.err
         /\ calls' = [calls EXCEPT
                !.pull = @ + 1, !.afterDone = @ + 1,
                !.missingAfterPull = IF missingAfterPull(a) THEN @ + 1 ELSE @]
         /\ Record(startError(cur, pullImage(debug, a.before, a.pullFails,
                                             a.streamFails, a.after).err))
    /\ UNCHANGED <<dep, selector, resolved, purgeLocals, netsLeft, networks,
                   result, notices, stuck, processed, debug, curNet, rt,
                   nethist, invocation, config, dockerConfig, images,
                   pullResult, warn>>

\* The command is run again on the runtime the last run left.
Reinvoke ==
    /\ pc = "done"
    /\ invocation < MaxInvocations
    /\ invocation' = invocation + 1
    /\ pc' = "query"
    /\ resolved' = <<>>
    /\ idx' = 1
    /\ ResetPurge
    /\ netsLeft' = {}
    /\ errors' = <<>>
    /\ result' = NoResult
    /\ notices' = <<>>
    /\ touched' = {}
    /\ processed' = <<>>
    /\ curNet' = "none"
    /\ nethist' = NoNetHistory
    /\ UNCHANGED <<dep, selector, networks, debug, rt, ctxDone, config,
                   dockerConfig, images, pullResult, warn>>

(***************************************************************************)
(* Specifications.                                                         *)
(***************************************************************************)
InitRest ==
    /\ resolved = <<>>
    /\ pc = "query"
    /\ idx = 1
    /\ purged = FALSE
    /\ stoppedOnceAlready = FALSE
    /\ attemptsRemaining = 0
    /\ st = "none"
    /\ netsLeft = {}
    /\ networks = {}
    /\ errors = <<>>
    /\ result = NoResult
    /\ notices = <<>>
    /\ calls = NoCalls
    /\ touched = {}
    /\ stuck = "none"
    /\ processed = <<>>
    /\ curNet = "none"
    /\ nethist = NoNetHistory
    /\ invocation = 1

\* No function is run on its own.
NoFunctions ==
    /\ config = Unset
    /\ dockerConfig = Unset
    /\ images = Unset
    /\ pullResult = Unset

\* The start command on the start-cmd deployment.
Init ==
    /\ dep \in StartDeployments
    /\ selector \in StartSelectors
    /\ debug \in BOOLEAN
    /\ rt = RuntimeFree
    /\ ctxDone = FALSE
    /\ warn = NoWarnings
    /\ InitRest
    /\ NoFunctions

Next ==
    \/ QueryContainers
    \/ StartNotAllowed
    \/ StartAllowed
    \/ PullImage
    \/ PurgeQuery
    \/ PurgeSwitch
    \/ PurgeSleep
    \/ PurgeReturn
    \/ CreateContainer
    \/ EnsureNetwork
    \/ ConnectNetwork
    \/ StartContainer
    \/ Finish

Spec == Init /\ [][Next]_vars

\* The resolution of a selector on the ordering deployments.
InitOrder ==
    /\ \E go \in [OrderGroups -> 1..MaxOrder], ids \in OrderIdentitySets :
         \E co \in [ids -> 1..MaxOrder] : dep = OrderDeployment(go, ids, co)
    /\ selector \in OrderSelectors
    /\ debug = FALSE
    /\ rt = RuntimeFree
    /\ ctxDone = FALSE
    /\ warn = NoWarnings
    /\ InitRest
    /\ NoFunctions

NextOrder == QueryContainers

SpecOrder == InitOrder /\ [][NextOrder]_vars

\* The start command of one group or one container, under a context that
\* can be cancelled at any point.
InitCancel ==
    /\ dep \in StartDeployments
    /\ selector \in { [kind |-> "group", group |-> <<103, 49>>, name |-> <<>>],
                      [kind |-> "container", group |-> <<103, 50>>,
                       name |-> <<99, 51>>] }
    /\ debug \in BOOLEAN
    /\ rt = RuntimeFree
    /\ ctxDone = FALSE
    /\ warn = NoWarnings
    /\ InitRest
    /\ NoFunctions

NextCancel ==
    \/ Next
    \/ Cancel
    \/ CancelDuringPull

SpecCancel == InitCancel /\ [][NextCancel]_vars

\* The start command of the container g2-c3, run MaxInvocations times on a
\* runtime that is followed, in which the container is at first absent or
\* in one of the states a container rests in.
InitRepeat ==
    /\ dep \in { d \in StartDeployments :
                   containerName(<<103, 50>>, <<99, 51>>) \in d.allowed }
    /\ selector = [kind |-> "container", group |-> <<103, 50>>,
                   name |-> <<99, 51>>]
    /\ debug \in BOOLEAN
    /\ rt \in RuntimeStates \ { "Removing" }
    /\ ctxDone = FALSE
    /\ warn = NoWarnings
    /\ InitRest
    /\ NoFunctions

NextRepeat ==
    \/ QueryContainers
    \/ StartAllowed
    \/ PullImage
    \/ PurgeQuery
    \/ PurgeSwitch
    \/ PurgeReturn
    \/ CreateContainer
    \/ EnsureNetwork
    \/ ConnectNetwork
    \/ StartContainer
    \/ Finish
    \/ Reinvoke

SpecRepeat == InitRepeat /\ [][NextRepeat]_vars

\* The group g1 of the start-cmd deployment with g1-c1, the one container
\* of it the host allows, on any of the networks: on none, on one, on both.
EndpointsDeployments ==
    { [groups |-> StartCmdGroups,
       containers |->
           { Container(<<103, 49>>, <<99, 49>>, 1, 1, "abc/xyz", nets),
             Container(<<103, 49>>, <<99, 50>>, 1, 2, "abc/xyz2", {"net1"}) },
       allowed |-> { containerName(<<103, 49>>, <<99, 49>>) }] :
        nets \in SUBSET NetworkNames }

\* The start command of group g1 or of container g1-c1 on them.
InitEndpoints ==
    /\ dep \in EndpointsDeployments
    /\ selector \in { [kind |-> "group", group |-> <<103, 49>>, name |-> <<>>],
                      [kind |-> "container", group |-> <<103, 49>>,
                       name |-> <<99, 49>>] }
    /\ debug \in BOOLEAN
    /\ rt = RuntimeFree
    /\ ctxDone = FALSE
    /\ warn = NoWarnings
    /\ InitRest
    /\ NoFunctions

SpecEndpoints == InitEndpoints /\ [][Next]_vars

\* The same, with the program taking its next step whenever it has one: it
\* is one thread, and a call of the runtime client or a sleep returns.
SpecEndpointsFair == InitEndpoints /\ [][Next]_vars /\ WF_vars(Next)

\* The start command of group g1 or of container g1-c1 on the same, under a
\* context that may be cancelled at any step, on a runtime that answers
\* freely or is followed from a host without the container.
InitRollback ==
    /\ dep \in EndpointsDeployments
    /\ selector \in { [kind |-> "group", group |-> <<103, 49>>, name |-> <<>>],
                      [kind |-> "container", group |-> <<103, 49>>,
                       name |-> <<99, 49>>] }
    /\ debug = FALSE
    /\ rt \in { RuntimeFree, "NotFound" }
    /\ ctxDone = FALSE
    /\ warn = NoWarnings
    /\ InitRest
    /\ NoFunctions

SpecRollback == InitRollback /\ [][NextCancel]_vars

\* The start command of group g1 or of container g1-c1 on the same, on a
\* runtime set to return warnings with any of the creations, which answers
\* freely or is followed from a host without the container.
InitWarnings ==
    /\ dep \in EndpointsDeployments
    /\ selector \in { [kind |-> "group", group |-> <<103, 49>>, name |-> <<>>],
                      [kind |-> "container", group |-> <<103, 49>>,
                       name |-> <<99, 49>>] }
    /\ debug = FALSE
    /\ rt \in { RuntimeFree, "NotFound" }
    /\ ctxDone = FALSE
    /\ warn \in [create : SUBSET { containerName(<<103, 49>>, <<99, 49>>) },
                 network : SUBSET NetworkNames]
    /\ InitRest
    /\ NoFunctions

SpecWarnings == InitWarnings /\ [][Next]_vars

\* envVars on every configuration of at most MaxEnv entries a list.
InitEnv ==
    /\ dep \in { d \in StartDeployments : d.allowed = {} }
    /\ selector = [kind |-> "all", group |-> <<>>, name |-> <<>>]
    /\ debug = FALSE
    /\ rt = RuntimeFree
    /\ ctxDone = FALSE
    /\ warn = NoWarnings
    /\ InitRest
    /\ config \in EnvConfigs
    /\ dockerConfig = Unset
    /\ images = Unset
    /\ pullResult = Unset

NextEnv == GenerateDockerConfigs

SpecEnv == InitEnv /\ [][NextEnv]_vars

\* generateDockerConfigs on every configuration of the settings that have a
\* global default.
InitSettings ==
    /\ dep \in { d \in StartDeployments : d.allowed = {} }
    /\ selector = [kind |-> "all", group |-> <<>>, name |-> <<>>]
    /\ debug = FALSE
    /\ rt = RuntimeFree
    /\ ctxDone = FALSE
    /\ warn = NoWarnings
    /\ InitRest
    /\ config \in SettingsConfigs
    /\ dockerConfig = Unset
    /\ images = Unset
    /\ pullResult = Unset

SpecSettings == InitSettings /\ [][NextEnv]_vars

\* generateDockerConfigs on every configuration of at most MaxLabels labels
\* a list.
InitLabels ==
    /\ dep \in { d \in StartDeployments : d.allowed = {} }
    /\ selector = [kind |-> "all", group |-> <<>>, name |-> <<>>]
    /\ debug = FALSE
    /\ rt = RuntimeFree
    /\ ctxDone = FALSE
    /\ warn = NoWarnings
    /\ InitRest
    /\ config \in LabelConfigs
    /\ dockerConfig = Unset
    /\ images = Unset
    /\ pullResult = Unset

SpecLabels == InitLabels /\ [][NextEnv]_vars

\* pullImage on every combination of answers of the runtime.
InitPull ==
    /\ dep \in { d \in StartDeployments : d.allowed = {} }
    /\ selector = [kind |-> "all", group |-> <<>>, name |-> <<>>]
    /\ debug \in BOOLEAN
    /\ rt = RuntimeFree
    /\ ctxDone = FALSE
    /\ warn = NoWarnings
    /\ InitRest
    /\ config = Unset
    /\ dockerConfig = Unset
    /\ images \in imagePullAnswers(RuntimeFree, FALSE)
    /\ pullResult = Unset

NextPull == RunPullImage

SpecPull == InitPull /\ [][NextPull]_vars

(***************************************************************************)
(* Vocabulary of the properties.                                           *)
(***************************************************************************)
Exhausted == "failed to stop and remove container after attempts"
QueryFailed == "failed to retrieve the container state"
StopFailed == "failed to stop the container"

\* container.start has returned for the container at idx - 1, and for none
\* after it.
Returned == pc \in { "loop", "done" } /\ idx > 1

\* ... and it returned an error.
FailedLast ==
    /\ Returned
    /\ Len(errors) > 0
    /\ errors[Len(errors)].name = name(resolved[idx - 1])

LastReason == errors[Len(errors)].reason

\* The number of the attempt the purge loop is in (0 before the first).
Attempt == stopAndRemoveAttempts - attemptsRemaining

InPurge == pc \in { "purge", "purge_switch", "purge_sleep" }

NoMutatingCalls == calls.stop = 0 /\ calls.kill = 0 /\ calls.remove = 0

Names(seq) == [i \in 1..Len(seq) |-> name(seq[i])]

StartedNotice(n) ==
    \E i \in 1..Len(notices) :
        notices[i] = [msg |-> "Started container", name |-> n]

NotAllowedNotices(n) ==
    { i \in 1..Len(notices) :
        notices[i] = [msg |-> "not allowed to run on host", name |-> n] }

(***************************************************************************)
(* C1.                                                                     *)
(***************************************************************************)
\* C1, as stated: a purge that read Running at every state query and failed
\* with the purge-exhausted error made exactly 5 state queries.
C1_FiveQueries ==
    (Returned /\ stuck = "Running" /\ FailedLast /\ LastReason = Exhausted)
        => calls.query = 5

\* C1, amended: a purge that read Running at every state query fails, and
\* unless a state query or the stop returned an error it fails with the
\* purge-exhausted error after exactly 6 state queries: one in each of the 5
\* attempts and the final one after the budget is used up.
C1_SixQueries ==
    (Returned /\ stuck = "Running")
        => /\ FailedLast
           /\ LastReason \notin { QueryFailed, StopFailed }
                => LastReason = Exhausted /\ calls.query = 6

C1_Witness ==
    /\ Returned /\ stuck = "Running" /\ FailedLast
    /\ LastReason = Exhausted /\ calls.query = 6

(***************************************************************************)
(* C2.                                                                     *)
(***************************************************************************)
\* C2: while every state query of a purge reads Running, the mutating calls
\* are one stop in attempt 1 and one kill followed by one wait in each later
\* attempt, with no second stop and no remove: after the query of attempt k
\* there were min(k-1, 1) stops and max(k-2, 0) kills and waits, the kill of
\* attempt k precedes its wait, and the exhausted purge made 1 stop, 4
\* kills and 4 waits.
C2_StuckRunningCalls ==
    stuck = "Running" =>
        /\ calls.remove = 0
        /\ pc = "purge_switch" =>
              /\ calls.stop = (IF Attempt > 1 THEN 1 ELSE 0)
              /\ calls.kill = (IF Attempt > 1 THEN Attempt - 2 ELSE 0)
              /\ calls.wait = calls.kill
        /\ pc = "purge_sleep" =>
              /\ Attempt >= 2
              /\ calls.stop = 1
              /\ calls.kill = Attempt - 1
              /\ calls.wait = Attempt - 2
        /\ pc = "purge" =>
              /\ calls.stop = 1
              /\ calls.kill = Attempt - 1
              /\ calls.wait = Attempt - 1
        /\ (FailedLast /\ LastReason = Exhausted) =>
              calls.stop = 1 /\ calls.kill = 4 /\ calls.wait = 4

C2_Witness ==
    /\ stuck = "Running" /\ FailedLast /\ LastReason = Exhausted
    /\ calls.stop = 1 /\ calls.kill = 4 /\ calls.wait = 4 /\ calls.remove = 0

(***************************************************************************)
(* C3.                                                                     *)
(***************************************************************************)
\* C3: a purge whose first state query reads NotFound makes that one query
\* and no stop, kill, remove or wait, and returns success: the loop is left
\* as purged, and no purge error is returned for the container.
C3_NotFoundNoOp ==
    stuck = "NotFound" =>
        /\ calls.query = 1
        /\ NoMutatingCalls
        /\ calls.wait = 0
        /\ pc \in { "purge_switch", "purge", "create", "network", "connect",
                    "loop", "done" }
        /\ pc = "purge" => purged
        /\ FailedLast => LastReason \notin { Exhausted, QueryFailed, StopFailed,
                                             "failed to remove the container" }

C3_Witness ==
    pc = "create" /\ stuck = "NotFound" /\ calls.query = 1 /\ NoMutatingCalls

(***************************************************************************)
(* C4.                                                                     *)
(***************************************************************************)
\* C4, as stated: once any state query of a purge has read Unknown, the run
\* aborts at once: the program is at the switch that aborts it, or aborted.
C4_AnyUnknownAborts ==
    st = "Unknown" => pc \in { "purge_switch", "aborted" }

\* C4, amended: a state query made in an attempt of the purge loop that reads
\* Unknown (which an unrecognized status string is read as) aborts the run
\* at once, with no further runtime call, no error recorded, no later
\* container taken up and no retry, and nothing happens after the abort;
\* the final query after the budget is used up reading Unknown instead
\* makes purge return the purge-exhausted error.
C4_UnknownInLoopAborts ==
    [][ /\ (pc = "purge_switch" /\ st = "Unknown")
             => /\ pc' = "aborted"
                /\ UNCHANGED <<calls, touched, processed, errors, idx,
                               result, notices, attemptsRemaining>>
        /\ pc = "aborted" => FALSE
        /\ (pc = "purge" /\ attemptsRemaining = 0 /\ st' = "Unknown")
             => /\ pc' = "loop"
                /\ errors' = Append(errors, [failed |-> TRUE,
                                             name |-> name(cur),
                                             reason |-> Exhausted]) ]_vars

C4_Witness ==
    pc = "aborted" /\ st = "Unknown" /\ idx < Len(resolved) /\ result = NoResult

(***************************************************************************)
(* C5.                                                                     *)
(***************************************************************************)
\* C5: for a container missing from the host's allow-list no runtime call is
\* made, and start emits the "not allowed" notice exactly once: one notice
\* once the container was processed, none before.
C5_NotAllowedUntouched ==
    \A i \in 1..Len(resolved) :
        name(resolved[i]) \notin dep.allowed
            => /\ name(resolved[i]) \notin touched
               /\ Cardinality(NotAllowedNotices(name(resolved[i])))
                    = (IF i < idx THEN 1 ELSE 0)

C5_Witness ==
    /\ touched # {}
    /\ \E i \in 1..Len(resolved) :
         /\ i < idx
         /\ name(resolved[i]) \notin dep.allowed
         /\ name(resolved[i]) \notin touched
         /\ Cardinality(NotAllowedNotices(name(resolved[i]))) = 1

(***************************************************************************)
(* C6.                                                                     *)
(***************************************************************************)
\* C6: a batch that ran to its end and in which every container was skipped
\* by the admission check or started returns success.
C6_NoFailureSucceeds ==
    ( /\ pc = "done"
      /\ result.kind \in { "ok", "aggregate" }
      /\ \A i \in 1..Len(resolved) :
           \/ name(resolved[i]) \notin dep.allowed
           \/ StartedNotice(name(resolved[i])) )
        => result = Success

C6_Witness ==
    /\ pc = "done"
    /\ result = Success
    /\ Len(resolved) = 3
    /\ \E i \in 1..3 : name(resolved[i]) \notin dep.allowed
    /\ \E i \in 1..3 : StartedNotice(name(resolved[i]))

(***************************************************************************)
(* C7.                                                                     *)
(***************************************************************************)
\* The order of the key (group order, container order, container name).
KeyLessByContainerName(c1, c2) ==
    \/ c1.gorder < c2.gorder
    \/ /\ c1.gorder = c2.gorder
       /\ \/ c1.order < c2.order
          \/ c1.order = c2.order /\ StrLess(c1.name, c2.name)

\* The order of the key (group order, container order, composite name).
KeyLessByCompositeName(c1, c2) ==
    \/ c1.gorder < c2.gorder
    \/ /\ c1.gorder = c2.gorder
       /\ \/ c1.order < c2.order
          \/ c1.order = c2.order /\ StrLess(name(c1), name(c2))

\* The resolved sequence holds each container the selector matches once.
ResolvedIsSelection ==
    /\ Len(resolved) = Cardinality(Selected(dep, selector))
    /\ { resolved[i] : i \in 1..Len(resolved) } = Selected(dep, selector)

\* C7, as stated: the resolved sequence is the matching containers sorted
\* ascending by (group order, container order, container name).
C7_SortedByContainerName ==
    pc = "loop" =>
        /\ ResolvedIsSelection
        /\ \A i, j \in 1..Len(resolved) :
             i < j => ~KeyLessByContainerName(resolved[j], resolved[i])

\* C7, amended: the resolved sequence is the matching containers sorted
\* ascending by (group order, container order, composite name), the
\* composite name being "<group>-<container>".
C7_SortedByCompositeName ==
    pc = "loop" =>
        /\ ResolvedIsSelection
        /\ \A i, j \in 1..Len(resolved) :
             i < j => ~KeyLessByCompositeName(resolved[j], resolved[i])

C7_Witness ==
    /\ pc = "loop"
    /\ Len(resolved) = 3
    /\ resolved[1].gorder = resolved[2].gorder
    /\ resolved[1].order = resolved[2].order
    /\ resolved[1].group # resolved[2].group
    /\ StrLess(resolved[2].name, resolved[1].name)
    /\ resolved[2].gorder < resolved[3].gorder
    /\ resolved[3].order < resolved[2].order

(***************************************************************************)
(* C8.                                                                     *)
(***************************************************************************)
\* C8: of any two containers of the deployment with distinct (group,
\* container) identities exactly one sorts before the other, so a selector
\* has one resolved order.
C8_NoTies ==
    pc = "loop" =>
        /\ \A c1, c2 \in dep.containers :
             (c1.group # c2.group \/ c1.name # c2.name)
                => (less(c1, c2) # less(c2, c1))
        /\ Cardinality(containerMapToList(Selected(dep, selector))) = 1

(***************************************************************************)
(* C9.                                                                     *)
(***************************************************************************)
StepErrors ==
    { "failed to pull the image", "failed while pulling the image",
      "image not available locally after a successful pull",
      QueryFailed, StopFailed, "failed to remove the container", Exhausted,
      "failed to create the container", "failed to create the network",
      "failed to connect container to network",
      "failed to start the container" }

\* The names of the resolved containers that were admitted and not started,
\* in the resolved order.
FailedNames ==
    LET failed(n) == n \in dep.allowed /\ ~StartedNotice(n)
    IN  SelectSeq(Names(resolved), failed)

\* C9: when a batch that ran to its end had failures, its aggregate error
\* lists exactly the containers that were admitted and not started, in the
\* processing order, numbered 1, 2, ..., each with its composite name and
\* the error of a start step.
C9_AggregateListsFailures ==
    (pc = "done" /\ result.kind \in { "ok", "aggregate" } /\ FailedNames # <<>>)
        => /\ result.kind = "aggregate"
           /\ result.count = Len(FailedNames)
           /\ Len(result.lines) = Len(FailedNames)
           /\ \A i \in 1..Len(FailedNames) :
                /\ result.lines[i].no = i
                /\ result.lines[i].name = FailedNames[i]
                /\ result.lines[i].reason \in StepErrors

\* The run of "Start - Failure": g1-c1 and g2-c3 fail to pull, g1-c2 is not
\* allowed.
C9_Witness ==
    /\ pc = "done"
    /\ Len(resolved) = 3
    /\ name(resolved[2]) \notin dep.allowed
    /\ result.kind = "aggregate"
    /\ result.count = 2
    /\ result.lines[1] = [no |-> 1, name |-> name(resolved[1]),
                          reason |-> "failed to pull the image"]
    /\ result.lines[2] = [no |-> 2, name |-> name(resolved[3]),
                          reason |-> "failed to pull the image"]

(***************************************************************************)
(* C10.                                                                    *)
(***************************************************************************)
\* C10: a step that records a container's failure returns nothing to the
\* caller and takes up the next container; the aggregate error is returned
\* only at the end of the batch, when every resolved container was handed
\* to container.start, in the resolved order.
C10_FailureDoesNotStopBatch ==
    /\ [][ Len(errors') > Len(errors)
             => /\ pc' = "loop"
                /\ idx' = idx + 1
                /\ result = NoResult
                /\ result' = NoResult ]_vars
    /\ [](result.kind = "aggregate"
             => pc = "done" /\ processed = Names(resolved))
    /\ []((pc = "loop" /\ idx <= Len(resolved))
             => processed = Names(SubSeq(resolved, 1, idx - 1)))

C10_Witness ==
    /\ pc = "done"
    /\ result.kind = "aggregate"
    /\ Len(resolved) = 3
    /\ errors[1].name = name(resolved[1])
    /\ name(resolved[2]) \notin dep.allowed
    /\ Cardinality(NotAllowedNotices(name(resolved[2]))) = 1
    /\ StartedNotice(name(resolved[3]))

(***************************************************************************)
(* C11.                                                                    *)
(***************************************************************************)
\* The resolved containers with an endpoint on network n that were started.
StartedOn(n) ==
    { i \in 1..Len(resolved) :
        n \in resolved[i].nets /\ StartedNotice(name(resolved[i])) }

NoCreateNetworkFailure ==
    \A i \in 1..Len(errors) : errors[i].reason # "failed to create the network"

eqPos(e) == CHOOSE i \in 1..Len(e) : e[i] = 61 /\ \A j \in 1..(i - 1) : e[j] # 61
varOf(e) == SubSeq(e, 1, eqPos(e) - 1)
valueOf(e) == SubSeq(e, eqPos(e) + 1, Len(e))

\* The names a list of the configuration sets, and the value it sets last.
VarsOf(list) == { list[i].var : i \in 1..Len(list) }
LastValue(list, k) ==
    list[CHOOSE i \in 1..Len(list) :
           list[i].var = k /\ \A j \in (i + 1)..Len(list) : list[j].var # k].value

\* C12: the environment handed to the creation of the container has exactly
\* one entry for each variable name set in the global defaults or in the
\* container's configuration and no other entry, and the entry of a name the
\* container sets carries the container's value, whether or not the global
\* defaults set the name too; the entry of any other name carries the
\* global value.
C12_OneEntryContainerWins ==
    dockerConfig # Unset =>
        LET E == dockerConfig.Env
            names == VarsOf(config.globalEnv) \cup VarsOf(config.env)
        IN  /\ Len(E) = Cardinality(names)
            /\ \A k \in names :
                  Cardinality({ i \in 1..Len(E) : varOf(E[i]) = k }) = 1
            /\ \A i \in 1..Len(E) :
                  /\ varOf(E[i]) \in names
                  /\ valueOf(E[i]) =
                       IF varOf(E[i]) \in VarsOf(config.env)
                       THEN LastValue(config.env, varOf(E[i]))
                       ELSE LastValue(config.globalEnv, varOf(E[i]))

\* Global FOO=bar with the container's FOO=baz gives exactly FOO=baz.
C12_Witness ==
    /\ config # Unset
    /\ config.globalEnv = << [var |-> <<70, 79, 79>>,
                              value |-> <<98, 97, 114>>] >>
    /\ config.env = << [var |-> <<70, 79, 79>>, value |-> <<98, 97, 122>>] >>
    /\ dockerConfig # Unset
    /\ dockerConfig.Env = << <<70, 79, 79, 61, 98, 97, 122>> >>

(***************************************************************************)
(* C13.                                                                    *)
(***************************************************************************)
\* Nothing was done for any container: no runtime call, no container handed
\* to container.start, no notice, no network.
NothingDone ==
    /\ touched = {}
    /\ processed = <<>>
    /\ resolved = <<>>
    /\ calls = NoCalls
    /\ notices = <<>>
    /\ errors = <<>>
    /\ networks = {}
    /\ nethist = NoNetHistory

MissingGroup == selector.kind # "all" /\ selector.group \notin dep.groups

MissingContainer ==
    /\ selector.kind = "container"
    /\ selector.group \in dep.groups
    /\ ~\E c \in dep.containers :
          c.group = selector.group /\ c.name = selector.name

\* C13: a selector naming a group that does not exist, with or without a
\* container name, makes the command return the unknown-group error, and
\* one naming a container that does not exist in an existing group the
\* unknown-container error; the command then ends with nothing done for
\* any container.
C13_SelectorErrorsPreFlight ==
    /\ MissingGroup =>
          /\ pc \in { "query", "done" }
          /\ pc = "done" => result = [kind |-> "UnknownGroup"]
          /\ NothingDone
    /\ MissingContainer =>
          /\ pc \in { "query", "done" }
          /\ pc = "done" => result = [kind |-> "UnknownContainer"]
          /\ NothingDone

\* The run of "Start - One Non Existing Container In Invalid Group".
C13_Witness ==
    /\ pc = "done"
    /\ selector = [kind |-> "container", group |-> <<103, 51>>,
                   name |-> <<99, 51>>]
    /\ result = [kind |-> "UnknownGroup"]
    /\ NothingDone

(***************************************************************************)
(* C14.                                                                    *)
(***************************************************************************)
\* The container container.start returned for last.
Last == resolved[idx - 1]

InStart ==
    pc \in { "pull", "purge", "purge_switch", "purge_sleep", "create",
             "network", "connect" }

ReasonsAt(p) ==
    CASE p = "pull" ->
           { "failed to pull the image", "failed while pulling the image",
             "image not available locally after a successful pull" }
      [] p = "purge" -> { QueryFailed, Exhausted }
      [] p = "purge_switch" -> { StopFailed, "failed to remove the container" }
      [] p = "create" -> { "failed to create the container" }
      [] p = "network" ->
           IF netsLeft # {} THEN { "failed to create the network" }
           ELSE { "failed to start the container" }
      [] p = "connect" -> { "failed to connect container to network" }
      [] OTHER -> {}

NoDuplicates(seq) ==
    \A i, j \in 1..Len(seq) : seq[i] = seq[j] => i = j

\* C15: a step of a container's start that fails makes container.start
\* return at once an error that carries the composite name of the container
\* and the reason of that step; after it no call is made for the container
\* (the next call is the first of another container), and no step is run
\* again: the pull, the creation and the start are called at most once,
\* each endpoint is connected at most once, and container.start is called
\* at most once for a container.
C15_FailedStepEndsStart ==
    /\ [][ Len(errors') > Len(errors)
             => /\ \E r \in ReasonsAt(pc) :
                     errors' = Append(errors, [failed |-> TRUE,
                                               name |-> name(cur),
                                               reason |-> r])
                /\ pc' = "loop"
                /\ idx' = idx + 1 ]_vars
    /\ [][ (pc = "loop" /\ calls' # calls)
             => calls' = NoCalls /\ idx' \in { idx, idx + 1 } /\ idx <= Len(resolved)
                /\ processed' = Append(processed, name(cur)) ]_vars
    /\ [](/\ calls.pull <= 1 /\ calls.create <= 1 /\ calls.start <= 1
          /\ InStart => calls.connect <= Cardinality(cur.nets)
          /\ NoDuplicates(processed)
          /\ NoDuplicates([i \in 1..Len(errors) |-> errors[i].name]))

\* The connect of the first of two endpoints failed: the second endpoint
\* was not taken up and the container was not started.
C15_Witness ==
    /\ FailedLast
    /\ LastReason = "failed to connect container to network"
    /\ Cardinality(Last.nets) = 2
    /\ calls.exists = 1 /\ calls.connect = 1 /\ calls.start = 0

(***************************************************************************)
(* C16.                                                                    *)
(***************************************************************************)
\* C16: when the loop of purge has used up its attempts, one state query
\* each, without reading NotFound, the next step is one more state query
\* and no other call; if it reads NotFound purge succeeds and the creation
\* is next, and otherwise purge fails, with the purge-exhausted error when
\* the query returned a state and with the query's error when it returned
\* none.  So a purge that succeeds without having been purged in the loop,
\* and one that fails as exhausted, made exactly one query more than the
\* attempts.
C16_FinalQueryDecides ==
    /\ [][ (pc = "purge" /\ ~purged /\ attemptsRemaining = 0)
             => /\ calls.query = stopAndRemoveAttempts
                /\ calls' = [calls EXCEPT !.query = @ + 1]
                /\ st' = "NotFound" <=> pc' = "create"
                /\ pc' = "create" => errors' = errors
                /\ pc' # "create" =>
                      /\ pc' = "loop"
                      /\ \E r \in { Exhausted, QueryFailed } :
                           errors' = Append(errors, [failed |-> TRUE,
                                                     name |-> name(cur),
                                                     reason |-> r]) ]_vars
    /\ []((pc \in { "create", "network", "connect" } /\ ~purged)
            => calls.query = stopAndRemoveAttempts + 1 /\ st = "NotFound")
    /\ []((FailedLast /\ LastReason = Exhausted)
            => /\ calls.query = stopAndRemoveAttempts + 1
               /\ st # "NotFound" /\ ~purged /\ attemptsRemaining = 0)

\* The remove of the last attempt took effect: the final query read
\* NotFound and the creation is next.
C16_Witness ==
    /\ pc = "create"
    /\ ~purged
    /\ attemptsRemaining = 0
    /\ st = "NotFound"
    /\ calls.query = stopAndRemoveAttempts + 1
    /\ calls.remove >= 1

(***************************************************************************)
(* C17.                                                                    *)
(***************************************************************************)
\* C17: on a runtime in which stop leads to Exited and remove to NotFound,
\* every run of start on a container that is absent, Created, Running,
\* Paused, Restarting, Exited or Dead, the first run and every later one,
\* has the container absent when it is created, records no failure, and
\* ends in success with the container started and Running.
C17_StartIsIdempotent ==
    /\ errors = <<>>
    /\ pc # "aborted"
    /\ pc = "create" => rt = "NotFound"
    /\ pc \in { "network", "connect" } => rt = "Created"
    /\ pc = "done" =>
          /\ result = Success
          /\ rt = "Running"
          /\ processed = << name(resolved[1]) >>
          /\ StartedNotice(name(resolved[1]))
          /\ calls.create = 1 /\ calls.start = 1

\* The second run found the container of the first run Running, stopped
\* and removed it, and started it again.
C17_Witness ==
    /\ invocation = 2
    /\ pc = "done"
    /\ result = Success
    /\ rt = "Running"
    /\ calls.stop = 1 /\ calls.remove = 1 /\ calls.query = 3
    /\ calls.create = 1 /\ calls.start = 1

(***************************************************************************)
(* C18.                                                                    *)
(***************************************************************************)
\* C18: once the context is done every call of the runtime client made for
\* a container fails, whichever step makes it: the pull, the state query,
\* the stop, the remove, the creation, the creation of a network, the
\* connect and the start make container.start return an error at once, and
\* only the kill, whose error purge ignores, is followed by one wait and
\* the state query that fails.  So at most three calls and waits are begun
\* for a container after the context is done, no network is created, no
\* container is reported started, and a purge that reads Running or
\* Removing again and again does not go on to the end of its attempts.
C18_CancelAbortsStart ==
    /\ [](ctxDone => calls.afterDone <= 3 /\ calls.afterDone <= calls.kill + 2)
    /\ [][ ctxDone =>
             /\ networks' = networks
             /\ nethist'.creates = nethist.creates
                  \/ Len(errors') = Len(errors) + 1
             /\ \A i \in 1..Len(notices') :
                  notices'[i].msg = "Started container" => i <= Len(notices)
             /\ ~stoppedOnceAlready => ~stoppedOnceAlready'
             /\ pc \in { "pull", "create", "network", "connect" } =>
                  pc' = "loop" /\ Len(errors') = Len(errors) + 1
             /\ (pc = "purge" /\ ~purged) =>
                  /\ pc' = "loop"
                  /\ errors' = Append(errors, [failed |-> TRUE,
                                                name |-> name(cur),
                                                reason |-> QueryFailed])
             /\ (pc = "purge_switch"
                   /\ purgeAction(st, stoppedOnceAlready) \in { "stop", "remove" }) =>
                  pc' = "loop" /\ Len(errors') = Len(errors) + 1 ]_vars

\* The context was done while purge, having read Running in the first two
\* attempts, was about to kill the container: the kill, the wait and the
\* next state query followed, and the query's error ended the purge with
\* two attempts left.
C18_Witness ==
    /\ ctxDone
    /\ FailedLast
    /\ LastReason = QueryFailed
    /\ stuck = "Running"
    /\ calls.query = 3 /\ calls.stop = 1 /\ calls.kill = 1 /\ calls.wait = 1
    /\ calls.afterDone = 3
    /\ attemptsRemaining = 2

(***************************************************************************)
(* C19.                                                                    *)
(***************************************************************************)
\* The image was listed before the pull.
AvailableBefore == ~images.before.err /\ Len(images.before.ids) > 0

\* The pull ran to its end and the image was listed after it.
PullCompleted ==
    /\ ~images.pullFails
    /\ ~images.streamFails
    /\ ~images.after.err
    /\ Len(images.after.ids) > 0

NewerNotices ==
    { i \in 1..Len(pullResult.notices) :
        pullResult.notices[i].msg = "Pulled newer version of image" }

\* C19: pullImage shows the progress of the pull unless the image was
\* listed before the pull and the client is not in debug mode; it emits
\* the notice "Pulled newer version of image" once, with the identifier
\* listed after the pull, when the pull was silent, ran to its end, and the
\* identifier listed after it differs from the one listed before; and it
\* emits no such notice in any other case, so none when progress was shown.
C19_NewerNoticeOnlyWhenSilent ==
    pullResult # Unset =>
        LET silent == AvailableBefore /\ ~debug
            newer == /\ silent
                     /\ PullCompleted
                     /\ images.after.ids[1] # images.before.ids[1]
        IN  /\ pullResult.show = ~silent
            /\ newer =>
                  /\ Cardinality(NewerNotices) = 1
                  /\ \A i \in NewerNotices :
                        /\ pullResult.notices[i].id = images.after.ids[1]
                        /\ pullResult.notices[i].tier = "info"
                  /\ pullResult.err = "nil"
            /\ ~newer => NewerNotices = {}
            /\ pullResult.show => NewerNotices = {}

\* A silent pull that replaced the image id1 by id2.
C19_Witness ==
    /\ ~debug
    /\ images # Unset
    /\ images.before = [err |-> FALSE, ids |-> <<"id1">>]
    /\ images.after = [err |-> FALSE, ids |-> <<"id2">>]
    /\ pullResult = [err |-> "nil", show |-> FALSE, stream |-> "discarded",
                     notices |-> << [tier |-> "info",
                                     msg |-> "Pulled newer version of image",
                                     id |-> "id2"] >>]

(***************************************************************************)
(* C20.                                                                    *)
(***************************************************************************)
NoEndpointsNotices(n) ==
    { i \in 1..Len(notices) :
        notices[i] = [msg |-> "no network endpoints configured", name |-> n] }

\* The container the calls counted in calls were made for.
Current == IF InStart THEN cur ELSE Last

\* C20: for a container without endpoints the start sequence makes no
\* existence check, no creation of a network and no connect call; after the
\* creation of the container its next step is the start call, before which
\* it emits the notice "no network endpoints configured" once; and the
\* container is reported started when that call succeeds.  A container with
\* endpoints gets no such notice.
C20_NoEndpointsStillStarted ==
    /\ []((InStart \/ Returned) =>
            IF Current.nets = {}
            THEN /\ calls.exists = 0 /\ calls.netcreate = 0 /\ calls.connect = 0
                 /\ pc # "connect"
                 /\ Cardinality(NoEndpointsNotices(name(Current))) = calls.start
            ELSE NoEndpointsNotices(name(Current)) = {})
    /\ [][ (pc = "network" /\ cur.nets = {}) =>
             /\ calls' = [calls EXCEPT !.start = 1]
             /\ pc' = "loop"
             /\ \/ /\ errors' = errors
                   /\ notices' = notices
                        \o << [msg |-> "no network endpoints configured",
                                name |-> name(cur)],
                               [msg |-> "Started container", name |-> name(cur)] >>
                \/ /\ errors' = Append(errors, [failed |-> TRUE, name |-> name(cur),
                                                reason |-> "failed to start the container"])
                   /\ notices' = Append(notices,
                                        [msg |-> "no network endpoints configured",
                                         name |-> name(cur)]) ]_vars

\* g1-c1 without endpoints was created and started.
C20_Witness ==
    /\ Returned
    /\ Last.nets = {}
    /\ calls.create = 1 /\ calls.start = 1
    /\ calls.exists = 0 /\ calls.netcreate = 0 /\ calls.connect = 0
    /\ networks = {}
    /\ Cardinality(NoEndpointsNotices(name(Last))) = 1
    /\ StartedNotice(name(Last))

(***************************************************************************)
(* C21.                                                                    *)
(***************************************************************************)
ContainerWarning == "Warnings encountered while creating the container"
NetworkWarning == "Warning encountered while creating the network"

WarningNotices(msg, n) ==
    { i \in 1..Len(notices) : notices[i].msg = msg /\ notices[i].name = n }

\* The step taken put out a warning of a creation.
WarnedNow ==
    /\ Len(notices') > Len(notices)
    /\ \E i \in (Len(notices) + 1)..Len(notices') :
         notices'[i].msg \in { ContainerWarning, NetworkWarning }

\* C21: warnings returned with a successful container creation or network
\* creation never abort the flow.  The step that puts out the warning records
\* no failure and goes on with the next step of the start (the endpoints
\* after the container's creation, the connection after the network's); and
\* on a runtime that is followed, where no call fails, a container the host
\* allows is reported as started, with the warnings of its own creation and
\* of each network created for it put out before that.
C21_WarningsDoNotAbort ==
    /\ [][WarnedNow =>
            /\ errors' = errors
            /\ idx' = idx
            /\ pc' \in { "network", "connect" }]_vars
    /\ [](\A i \in 1..(idx - 1) :
            LET c == resolved[i]
            IN  (rt # RuntimeFree /\ pc \in { "loop", "done" }
                    /\ isAllowedOnCurrentHost(c)) =>
                  /\ errors = <<>>
                  /\ StartedNotice(name(c))
                  /\ name(c) \in warn.create =>
                        \E w \in WarningNotices(ContainerWarning, name(c)) :
                            /\ Len(notices[w].lines) = 2
                            /\ notices[w].lines[2].no = 2
                  /\ \A n \in c.nets \cap warn.network :
                        nethist.creates[n] > 0 =>
                            WarningNotices(NetworkWarning, n) # {})

\* C21 witness: the start of g1-c1 has ended in success on a runtime that
\* returned warnings with the creation of the container and of net1.
C21_Witness ==
    /\ pc = "done"
    /\ result = Success
    /\ WarningNotices(ContainerWarning, containerName(<<103, 49>>, <<99, 49>>)) # {}
    /\ WarningNotices(NetworkWarning, "net1") # {}
    /\ StartedNotice(containerName(<<103, 49>>, <<99, 49>>))

(***************************************************************************)
(* C22.                                                                    *)
(***************************************************************************)
RunStates == { "Running", "Paused", "Restarting" }

\* The switch of purge is taken on the state st.
AtSwitch == pc = "purge_switch"

\* C22: in any purge, when the state read is Running, Paused or Restarting,
\* a stop is issued if and only if no stop was issued earlier in this purge,
\* and otherwise a kill is; whichever of the three states was read before.
\* So at most one stop is issued in a purge, and no kill before the stop.
C22_StopOnceThenKill ==
    /\ [][(AtSwitch /\ st \in RunStates) =>
            IF calls.stop = 0
            THEN calls'.stop = 1 /\ calls'.kill = calls.kill
            ELSE calls'.stop = calls.stop /\ calls'.kill = calls.kill + 1]_vars
    /\ [](calls.stop <= 1 /\ (calls.kill > 0 => calls.stop = 1))

\* C22 witness: the first query of a purge read one of the three states and
\* the stop was issued; the second read Paused, another of them, and the
\* kill was issued.
C22_Witness ==
    /\ pc = "purge_sleep"
    /\ st = "Paused"
    /\ stuck = "mixed"
    /\ calls.query = 2
    /\ calls.stop = 1
    /\ calls.kill = 1
    /\ calls.remove = 0

(***************************************************************************)
(* C23.                                                                    *)
(***************************************************************************)
KillFailed == "failed to kill the container"

\* The step taken issued a kill, and the kill returned an error.
KillFailedNow == calls'.killFailed > calls.killFailed

\* C23: a failure of the kill during purge is ignored.  The step in which
\* the kill fails records no failure and leads to the sleep; the sleep leads
\* back to the head of the loop with the budget as it was; and at the head
\* of the loop, with budget remaining, the next step is the state query.  No
\* failure recorded gives the kill as its reason.
C23_KillFailureIgnored ==
    /\ [][KillFailedNow =>
            /\ errors' = errors
            /\ idx' = idx
            /\ pc' = "purge_sleep"]_vars
    /\ [][pc = "purge_sleep" =>
            /\ pc' = "purge"
            /\ calls'.wait = calls.wait + 1
            /\ attemptsRemaining' = attemptsRemaining
            /\ purged' = purged
            /\ errors' = errors]_vars
    /\ [][(pc = "purge" /\ ~purged /\ attemptsRemaining > 0) =>
            /\ calls'.query = calls.query + 1
            /\ attemptsRemaining' = attemptsRemaining - 1]_vars
    /\ [](\A i \in 1..Len(errors) : errors[i].reason # KillFailed)

\* C23 witness: under a live context the kill of the second turn failed, and
\* the state query of the third turn was made and answered.
C23_Witness ==
    /\ ~ctxDone
    /\ pc = "purge_switch"
    /\ calls.kill = 1
    /\ calls.killFailed = 1
    /\ calls.wait = 1
    /\ calls.query = 3
    /\ errors = <<>>

(***************************************************************************)
(* C24.                                                                    *)
(***************************************************************************)
RestStates == { "Created", "Exited", "Dead" }

\* C24: when the state read is Created, Exited or Dead, purge issues the
\* remove, whether a stop was issued before or not, and neither a stop nor
\* a kill in that turn.  The remove does not mark the purge complete: purged
\* is set only by a turn whose query read NotFound, and the creation of the
\* container is reached only with NotFound as the last state read.
C24_RemoveDirectly ==
    /\ [][(AtSwitch /\ st \in RestStates) =>
            /\ calls'.remove = calls.remove + 1
            /\ calls'.stop = calls.stop
            /\ calls'.kill = calls.kill
            /\ purged' = purged]_vars
    /\ [][(purged' /\ ~purged) =>
            (AtSwitch /\ st = "NotFound" /\ calls' = calls)]_vars
    /\ [](pc = "create" => st = "NotFound")

\* C24 witness: a purge that stopped the container, read it at rest, removed it
\* and read NotFound, and so is complete after three turns.
C24_Witness ==
    /\ pc = "create"
    /\ purged
    /\ st = "NotFound"
    /\ calls.stop = 1
    /\ calls.kill = 0
    /\ calls.remove = 1
    /\ calls.query = 3

(***************************************************************************)
(* C25.                                                                    *)
(***************************************************************************)
\* C25: when the state read is Removing, purge issues no mutating call in
\* that turn and goes to the sleep.  While every state query of a purge
\* reads Removing there is no stop, kill or remove, and one sleep for each
\* turn taken; such a purge ends only in failure, and unless a state query
\* itself failed it ends with the purge-exhausted error after the queries of
\* all stopAndRemoveAttempts turns, as many sleeps, and the final query.
C25_RemovingWaitsOut ==
    /\ [][(AtSwitch /\ st = "Removing") =>
            /\ calls'.stop = calls.stop
            /\ calls'.kill = calls.kill
            /\ calls'.remove = calls.remove
            /\ purged' = purged
            /\ attemptsRemaining' = attemptsRemaining
            /\ pc' = "purge_sleep"]_vars
    /\ [](stuck = "Removing" =>
            /\ NoMutatingCalls
            /\ ~purged
            /\ pc = "purge" => calls.wait = Attempt
            /\ pc \notin { "create", "network", "connect" }
            /\ Returned =>
                 /\ FailedLast
                 /\ LastReason \in { Exhausted, QueryFailed }
                 /\ LastReason = Exhausted =>
                      /\ attemptsRemaining = 0
                      /\ calls.query = stopAndRemoveAttempts + 1
                      /\ calls.wait = stopAndRemoveAttempts)

\* C25 witness: a purge that read Removing at each of its queries has failed
\* with the purge-exhausted error, without a stop, a kill or a remove.
C25_Witness ==
    /\ stuck = "Removing"
    /\ FailedLast
    /\ LastReason = Exhausted
    /\ calls.query = stopAndRemoveAttempts + 1
    /\ calls.wait = stopAndRemoveAttempts
    /\ NoMutatingCalls

(***************************************************************************)
(* C26.                                                                    *)
(***************************************************************************)
MutatingCalls == calls.stop + calls.kill + calls.remove

\* C26: every turn of the purge loop takes exactly one unit of the budget,
\* whichever branch it takes, and makes exactly one state query and at most
\* one mutating call.  A turn begins with the step that takes the unit and
\* makes the query; the switch is reached by that step only, so that it is
\* taken on the state this turn's query read; the switch makes at most one
\* mutating call, no query, and leaves the budget alone.  So in a purge the
\* queries made are as many as the units taken, and the mutating calls at
\* most as many as the switches taken.
C26_OneUnitOneQueryPerTurn ==
    /\ [][(pc = "purge" /\ purgeLoopContinues(purged, attemptsRemaining)) =>
            /\ attemptsRemaining' = attemptsRemaining - 1
            /\ calls'.query = calls.query + 1
            /\ MutatingCalls' = MutatingCalls]_vars
    /\ [][pc' = "purge_switch" =>
            /\ pc = "purge"
            /\ calls'.query = calls.query + 1
            /\ attemptsRemaining' = attemptsRemaining - 1]_vars
    /\ [][AtSwitch =>
            /\ attemptsRemaining' = attemptsRemaining
            /\ calls'.query = calls.query
            /\ MutatingCalls' \in { MutatingCalls, MutatingCalls + 1 }
            /\ st' = st]_vars
    /\ [][pc = "purge_sleep" =>
            /\ attemptsRemaining' = attemptsRemaining
            /\ calls'.query = calls.query
            /\ MutatingCalls' = MutatingCalls]_vars
    /\ [](InPurge =>
            /\ attemptsRemaining \in 0..stopAndRemoveAttempts
            /\ calls.query = Attempt
            /\ MutatingCalls <= (IF AtSwitch THEN Attempt - 1 ELSE Attempt)
            /\ calls.wait <= (IF pc = "purge" THEN Attempt ELSE Attempt - 1))

\* C26 witness: a purge whose five turns took the five branches (a stop, a
\* kill, the wait on Removing, a remove, NotFound) has used its five units
\* on five queries and three mutating calls.
C26_Witness ==
    /\ pc = "purge"
    /\ purged
    /\ attemptsRemaining = 0
    /\ calls.query = stopAndRemoveAttempts
    /\ calls.stop = 1
    /\ calls.kill = 1
    /\ calls.remove = 1
    /\ calls.wait = 2

(***************************************************************************)
(* C27.                                                                    *)
(***************************************************************************)
PullingNotices ==
    { i \in 1..Len(pullResult.notices) :
        pullResult.notices[i].msg = "Pulling image" }

\* C27: the progress of a pull is displayed if and only if the client is in
\* debug mode or the image was not listed before the pull; in every other
\* case the progress stream is read and discarded, and nothing announces the
\* pull.  (When ImagePull itself fails there is no stream to display or to
\* discard.)  A pull that is displayed is announced once, at the info tier
\* when the image was not listed and at the debug tier otherwise.
C27_ProgressShownIffDebugOrAbsent ==
    pullResult # Unset =>
        LET verbose == debug \/ ~AvailableBefore
        IN  /\ pullResult.show = verbose
            /\ images.pullFails => pullResult.stream = "none"
            /\ ~images.pullFails =>
                  /\ pullResult.stream = "displayed" <=> verbose
                  /\ pullResult.stream = "discarded" <=> ~verbose
            /\ pullResult.stream = "discarded" => PullingNotices = {}
            /\ pullResult.stream = "displayed" =>
                  /\ Cardinality(PullingNotices) = 1
                  /\ \A i \in PullingNotices :
                        pullResult.notices[i].tier =
                            (IF AvailableBefore THEN "debug" ELSE "info")

\* C27 witness: out of debug mode, the pull of an image that was not listed
\* before has displayed its progress and succeeded.
C27_Witness ==
    /\ ~debug
    /\ images # Unset
    /\ images.before = [err |-> FALSE, ids |-> <<>>]
    /\ pullResult # Unset
    /\ pullResult.stream = "displayed"
    /\ pullResult.err = "nil"

(***************************************************************************)
(* C28.                                                                    *)
(***************************************************************************)
ImageMissing == "image not available locally after a successful pull"

\* C28: a pull that ran to its end without the image being listed after it
\* is a failure of the pull step.  The step records the failure of the
\* container's start with this reason and hands over to the batch driver;
\* and the pull is the one call made for that container: no state query, no
\* stop, kill or remove, no creation, no network call and no start follow,
\* and the container is not reported as started.
C28_MissingAfterPullIsFatal ==
    /\ [][calls'.missingAfterPull > calls.missingAfterPull =>
            /\ errors' = Append(errors, startError(cur, ImageMissing))
            /\ pc' = "loop"
            /\ idx' = idx + 1]_vars
    /\ [](calls.missingAfterPull > 0 =>
            /\ Returned
            /\ FailedLast
            /\ LastReason = ImageMissing
            /\ calls = [NoCalls EXCEPT !.pull = 1, !.missingAfterPull = 1]
            /\ ~StartedNotice(name(resolved[idx - 1])))

\* C28 witness: the command has ended with the failure of g1-c1, whose pull
\* ran to its end with the image not listed after it.
C28_Witness ==
    /\ pc = "done"
    /\ calls.missingAfterPull = 1
    /\ result.kind = "aggregate"
    /\ result.count = 1
    /\ result.lines[1].name = containerName(<<103, 49>>, <<99, 49>>)
    /\ result.lines[1].reason = ImageMissing

(***************************************************************************)
(* C29.                                                                    *)
(***************************************************************************)
\* C29, as stated: in the creation parameters each of domain name, stop
\* signal, stop timeout and restart policy is the container's value when the
\* container sets one, and the global default when it sets none.
C29_SettingsFallBack ==
    dockerConfig # Unset =>
        /\ dockerConfig.Domainname =
              (IF config.domainName # "" THEN config.domainName
               ELSE config.globalDomainName)
        /\ dockerConfig.StopSignal =
              (IF config.stopSignal # "" THEN config.stopSignal
               ELSE config.globalStopSignal)
        /\ dockerConfig.StopTimeout =
              (IF config.stopTimeout # 0 THEN config.stopTimeout
               ELSE config.globalStopTimeout)
        /\ dockerConfig.RestartPolicy.Name =
              (IF config.restartPolicy # "" THEN config.restartPolicy
               ELSE config.globalRestartPolicy)

(***************************************************************************)
(* C30.                                                                    *)
(***************************************************************************)
LabelNamesOf(list) == { list[i].Name : i \in 1..Len(list) }

LastLabelValue(list, k) ==
    list[CHOOSE i \in 1..Len(list) :
           list[i].Name = k /\ \A j \in (i + 1)..Len(list) : list[j].Name # k].Value

\* C30, as stated: the labels handed to the creation of the container are
\* the overlay of the global default labels and the container's own: a key
\* for each name either list sets and no other, with the container's value
\* when the container sets the name and the global value otherwise.
C30_LabelsOverlay ==
    dockerConfig # Unset =>
        LET L == dockerConfig.Labels
        IN  /\ DOMAIN L = LabelNamesOf(config.globalLabels)
                              \cup LabelNamesOf(config.labels)
            /\ \A k \in DOMAIN L :
                  L[k] = IF k \in LabelNamesOf(config.labels)
                         THEN LastLabelValue(config.labels, k)
                         ELSE LastLabelValue(config.globalLabels, k)

(***************************************************************************)
(* C31.                                                                    *)
(***************************************************************************)
\* The position of the container named n in the resolved order.
Pos(n) == CHOOSE i \in 1..Len(resolved) : name(resolved[i]) = n

\* The step taken made a call of the runtime client, or slept in purge.
CalledNow == calls' # calls /\ calls' # NoCalls

\* C31: within one batch the runtime calls of different containers never
\* interleave.  The batch driver moves through the resolved order one
\* position at a time and never back; every call is made for the container
\* at the driver's position, so that the containers called for are among
\* those up to this position, each call for position k being made before the
\* driver moves to k+1 and each call for k+1 after; the containers are handed
\* to container.start in the resolved order; and the notices that name a
\* container appear in the resolved order of the containers.
C31_NoInterleaving ==
    /\ [][/\ idx' \in { idx, idx + 1 }
          /\ resolved # <<>> => resolved' = resolved]_vars
    /\ [][CalledNow =>
            /\ idx <= Len(resolved)
            /\ touched' = touched \cup { name(resolved[idx]) }
            /\ processed[Len(processed)] = name(resolved[idx])]_vars
    /\ [](touched \subseteq
             { name(resolved[i]) :
                 i \in 1..(IF idx <= Len(resolved) THEN idx ELSE Len(resolved)) })
    /\ [](processed = Names(SubSeq(resolved, 1,
                                   IF pc \in { "query", "loop", "done" }
                                   THEN idx - 1 ELSE idx)))
    /\ [](\A i, j \in 1..Len(notices) :
             i < j => Pos(notices[i].name) <= Pos(notices[j].name))

\* C31 witness: a batch of three ended with the first and the third
\* container started, calls made for both, and the second one, between
\* them, refused by the host.
C31_Witness ==
    /\ pc = "done"
    /\ Len(resolved) = 3
    /\ touched = { name(resolved[1]), name(resolved[3]) }
    /\ [i \in 1..Len(notices) |-> notices[i].name] = Names(resolved)
    /\ StartedNotice(name(resolved[1]))
    /\ StartedNotice(name(resolved[3]))
    /\ NotAllowedNotices(name(resolved[2])) # {}

(***************************************************************************)
(* C32.                                                                    *)
(***************************************************************************)
\* The step taken is the one with which purge returns success: startInternal
\* goes on from the purge to the creation.
PurgeSucceedsNow == InPurge /\ pc' = "create"

\* The purge of the current container has returned success.
PurgeSucceeded == pc \in { "create", "network", "connect" }

\* C32: for every behaviour of the runtime, when purge returns success the
\* most recent state query it made read NotFound.  It returns success only
\* from the head of the loop, either as purged, which only a turn that read
\* NotFound sets, or on a final query made in that very step and reading
\* NotFound; a step that issues a stop, a kill or a remove neither sets
\* purged nor returns success.
C32_SuccessOnlyOnNotFound ==
    /\ [][PurgeSucceedsNow =>
            /\ pc = "purge"
            /\ st' = "NotFound"
            /\ MutatingCalls' = MutatingCalls
            /\ \/ purged /\ st = "NotFound" /\ calls' = calls
               \/ ~purged /\ calls'.query = calls.query + 1]_vars
    /\ [][MutatingCalls' > MutatingCalls =>
            /\ purged' = purged
            /\ ~purged
            /\ pc' # "create"]_vars
    /\ [](PurgeSucceeded => (st = "NotFound" /\ calls.query >= 1))
    /\ [](purged => st = "NotFound")

\* C32 witness: a purge that issued a remove and used up its budget without
\* reading NotFound has returned success on its final query, which did.
C32_Witness ==
    /\ pc = "create"
    /\ ~purged
    /\ attemptsRemaining = 0
    /\ st = "NotFound"
    /\ calls.query = stopAndRemoveAttempts + 1
    /\ calls.remove >= 1

(***************************************************************************)
(* C33.                                                                    *)
(***************************************************************************)
RemoveFailed == "failed to remove the container"

\* The reasons with which a purge fails.
PurgeFailures == { Exhausted, QueryFailed, StopFailed, RemoveFailed }

\* C33: within a start sequence the creation of the container is called
\* only when the last state query made for its name read NotFound, and at
\* most once.  The step that calls it follows a purge that returned success,
\* with no failure recorded for the container; and for a container whose
\* start failed in the purge, or whose purge was cut short on a state it
\* does not recognize, the creation was not called.
C33_CreateOnlyAfterNotFound ==
    /\ [][calls'.create > calls.create =>
            /\ pc = "create"
            /\ calls.create = 0
            /\ calls.query >= 1
            /\ st = "NotFound"
            /\ \A i \in 1..Len(errors) : errors[i].name # name(cur)]_vars
    /\ []((FailedLast /\ LastReason \in PurgeFailures) => calls.create = 0)
    /\ [](pc = "aborted" => calls.create = 0)
    /\ [](calls.create > 0 => st = "NotFound")

\* C33 witness: the creation was called after a purge that stopped and
\* removed the container and then read NotFound.
C33_Witness ==
    /\ pc = "network"
    /\ calls.create = 1
    /\ st = "NotFound"
    /\ calls.stop = 1
    /\ calls.remove = 1
    /\ calls.query = 3

(***************************************************************************)
(* C34.                                                                    *)
(***************************************************************************)
\* C34: purge always terminates.  For any behaviour of the runtime a purge
\* with the budget of stopAndRemoveAttempts makes at most one state query
\* more than the budget, at most as many mutating calls as the budget and at
\* most as many waits; and a purge that was begun comes to its end: with
\* success, with an error, or aborted on a state it does not recognize.
C34_PurgeTerminates ==
    /\ [](/\ calls.query <= stopAndRemoveAttempts + 1
          /\ MutatingCalls <= stopAndRemoveAttempts
          /\ calls.wait <= stopAndRemoveAttempts
          /\ InPurge => attemptsRemaining + calls.query = stopAndRemoveAttempts)
    /\ (InPurge ~> ~InPurge)

\* C34 witness: a purge has ended after as many state queries and mutating
\* calls as the budget allows, on states that were not the same throughout.
C34_Witness ==
    /\ FailedLast
    /\ LastReason = Exhausted
    /\ stuck = "mixed"
    /\ calls.query = stopAndRemoveAttempts + 1
    /\ MutatingCalls = stopAndRemoveAttempts

(***************************************************************************)
(* C35.                                                                    *)
(***************************************************************************)
\* The reasons of the errors purge hands on from a call of the runtime.
PurgeCallFailures == { QueryFailed, StopFailed, RemoveFailed }

\* The step taken recorded a failure of the current container.
FailedNow == Len(errors') = Len(errors) + 1

\* C35: when during purge a state query fails with an error other than
\* not-found, or a stop or a remove fails, purge returns that error at once
\* as the error of this container.  The step in which the call fails records
\* the container's failure with the call's reason and hands over to the
\* batch driver, which returns nothing yet and takes up the next container;
\* the budget that remains is left unused; no later step of the start was
\* taken for the container; and nothing but a call of the runtime sets the
\* budget aside: a failure in the purge with budget left over has one of
\* these reasons.  A not-found error of the state query is the state
\* NotFound with no error, and any other error is an error.
C35_PurgeCallErrorsReturned ==
    /\ [][(FailedNow /\ InPurge) =>
            /\ errors'[Len(errors')].name = name(cur)
            /\ errors'[Len(errors')].reason \in PurgeCallFailures \cup { Exhausted }
            /\ pc' = "loop"
            /\ idx' = idx + 1
            /\ result' = NoResult
            /\ purged' = purged
            /\ AtSwitch =>
                 /\ attemptsRemaining' = attemptsRemaining
                 /\ MutatingCalls' = MutatingCalls + 1
                 /\ calls'.query = calls.query]_vars
    /\ []((FailedLast /\ LastReason \in PurgeCallFailures) =>
            /\ calls.create = 0 /\ calls.exists = 0 /\ calls.netcreate = 0
            /\ calls.connect = 0 /\ calls.start = 0
            /\ ~StartedNotice(name(Last))
            /\ LastReason \in { StopFailed, RemoveFailed } =>
                 /\ calls.query = Attempt
                 /\ calls.stop + calls.remove >= 1
            /\ LastReason = StopFailed => calls.stop = 1 /\ calls.kill = 0)
    /\ []((FailedLast /\ LastReason = Exhausted) => attemptsRemaining = 0)
    /\ [](/\ getContainerState("ErrNotFound")
                = [state |-> "NotFound", err |-> FALSE]
          /\ getContainerState("ErrOther").err)

\* C35 witness: the stop of the first turn failed; the container's start has
\* failed with four units of the budget unused, the command has returned
\* nothing yet, and the next container of the batch is to be taken up.
C35_Witness ==
    /\ pc = "loop"
    /\ idx = 2
    /\ Len(resolved) = 2
    /\ FailedLast
    /\ LastReason = StopFailed
    /\ attemptsRemaining = stopAndRemoveAttempts - 1
    /\ calls.query = 1
    /\ calls.stop = 1
    /\ result = NoResult

(***************************************************************************)
(* C36: no rollback after the creation.                                    *)
(***************************************************************************)
\* The current container has been created and startInternal is at its
\* network bootstrap or at the start of the container.
AfterCreation == pc \in { "network", "connect" }

\* The reasons with which a start sequence fails after the creation.
PostCreateFailures ==
    { "failed to create the network",
      "failed to connect container to network",
      "failed to start the container" }

\* The networks the current container has been connected to.
Connected(c) == c.nets \ netsLeft

\* C36: there is no rollback.  When startInternal fails at the network
\* bootstrap or at the start of the container, after the container was
\* created, the failing step issues no stop, kill or remove, leaves the
\* container in the runtime as it was (created, not started, when the
\* runtime is followed), and leaves the networks created and the
\* connections made as they were; no step after the creation issues a
\* stop, kill or remove or takes a network away, and once container.start
\* has returned no further call is made for that container: the count of
\* calls changes next when the batch driver takes up the next container.
C36_NoRollback ==
    /\ [][(AfterCreation /\ FailedNow)
            => /\ MutatingCalls' = MutatingCalls
               /\ rt' = rt
               /\ networks' = networks
               /\ netsLeft' = netsLeft
               /\ errors'[Len(errors')].reason \in PostCreateFailures]_vars
    /\ [][AfterCreation
            => /\ calls'.stop = calls.stop
               /\ calls'.kill = calls.kill
               /\ calls'.remove = calls.remove
               /\ networks \subseteq networks'
               /\ netsLeft' \subseteq netsLeft]_vars
    /\ [][(pc = "loop" /\ calls' # calls)
            => (idx <= Len(resolved) /\ calls' = NoCalls)]_vars
    /\ [](  (FailedLast /\ LastReason \in PostCreateFailures)
            => /\ calls.create = 1
               /\ rt \in { RuntimeFree, "Created" }
               /\ rt # RuntimeFree => MutatingCalls = 0
               /\ Connected(resolved[idx - 1]) \subseteq networks)

\* The container g1-c1 was created on the followed runtime and connected to
\* net1, which was created for it; the bootstrap of net2 failed then, and the
\* command is done: the container is still there as created, net1 is still
\* there, and no stop, kill or remove was called.
C36_Witness ==
    /\ pc = "done"
    /\ FailedLast
    /\ LastReason \in { "failed to create the network",
                        "failed to connect container to network" }
    /\ rt = "Created"
    /\ calls.create = 1
    /\ MutatingCalls = 0
    /\ resolved[idx - 1].nets = NetworkNames
    /\ Cardinality(netsLeft) = 1
    /\ Connected(resolved[idx - 1]) \subseteq networks
    /\ result.kind = "aggregate"

(***************************************************************************)
(* C37: the three outcomes of a container.                                 *)
(***************************************************************************)
\* How often the container named n was reported started, was reported as
\* not allowed, and had a failure recorded.
StartedCount(n) ==
    Cardinality({ i \in 1..Len(notices) :
                    notices[i] = [msg |-> "Started container", name |-> n] })

SkippedCount(n) == Cardinality(NotAllowedNotices(n))

FailedCount(n) ==
    Cardinality({ i \in 1..Len(errors) : errors[i].name = n })

\* The step taken emitted the notice "Started container".
StartedNow ==
    /\ Len(notices') = Len(notices) + 1 \/ Len(notices') = Len(notices) + 2
    /\ notices'[Len(notices')].msg = "Started container"

\* The step taken is a return of container.start to the batch driver.
ReturnsNow == idx' = idx + 1

\* C37: each container processed by start ends in exactly one of three
\* outcomes, skipped, started or failed.  For every container that
\* container.start has returned for, exactly one of the notice of the skip,
\* the notice "Started container" and a recorded error exists, once; it is
\* the skip exactly for a container the host does not allow, for which no
\* call was made; a container not yet returned for has none of the three.
\* "Started container" is emitted by the step in which the start call
\* succeeds, for an admitted container whose pull, purge, creation and
\* network bootstrap have succeeded, and no error is recorded with it; a
\* return from an admitted container either emits it or records an error,
\* never both; a return from a container not admitted does neither.
C37_ExactlyOneOutcome ==
    /\ [](\A i \in 1..Len(resolved) :
            LET c == resolved[i]
                n == name(c)
            IN  IF i < idx
                THEN /\ StartedCount(n) + SkippedCount(n) + FailedCount(n) = 1
                     /\ SkippedCount(n) = 1 <=> ~isAllowedOnCurrentHost(c)
                     /\ SkippedCount(n) = 1 => n \notin touched
                ELSE /\ StartedCount(n) = 0
                     /\ SkippedCount(n) = 0
                     /\ FailedCount(n) = 0)
    /\ [][StartedNow
            => /\ isAllowedOnCurrentHost(cur)
               /\ pc = "network" /\ netsLeft = {}
               /\ calls.pull = 1 /\ calls.missingAfterPull = 0
               /\ purged \/ st = "NotFound"
               /\ calls.create = 1
               /\ calls.connect = Cardinality(cur.nets)
               /\ calls.start = 0 /\ calls'.start = 1
               /\ notices'[Len(notices')].name = name(cur)
               /\ ReturnsNow
               /\ ~FailedNow]_vars
    /\ [][ReturnsNow
            => IF isAllowedOnCurrentHost(cur)
               THEN /\ InStart
                    /\ StartedNow \/ FailedNow
                    /\ ~(StartedNow /\ FailedNow)
                    /\ FailedNow => errors'[Len(errors')].name = name(cur)
               ELSE /\ pc = "loop"
                    /\ ~StartedNow
                    /\ ~FailedNow
                    /\ calls' = NoCalls]_vars
    /\ [][(StartedNow \/ FailedNow) => ReturnsNow]_vars

\* Group g1 is done: g1-c1, admitted, was started after all its steps, and
\* g1-c2, not allowed on the host, was skipped; no error was recorded.
C37_Witness ==
    /\ pc = "done"
    /\ Len(resolved) = 2
    /\ StartedCount(name(resolved[1])) = 1
    /\ SkippedCount(name(resolved[2])) = 1
    /\ errors = <<>>
    /\ result = Success

\* Group g1 is done: g1-c1, admitted, failed at one of its steps, and has no
\* "Started container" notice.
C37_WitnessFailed ==
    /\ pc = "done"
    /\ Len(resolved) = 2
    /\ FailedCount(name(resolved[1])) = 1
    /\ StartedCount(name(resolved[1])) = 0
    /\ SkippedCount(name(resolved[2])) = 1

(***************************************************************************)
(* C38: a failure of the image list.                                       *)
(***************************************************************************)
\* The answers of ImageList: the call failed; it listed no image.
ListFailed == [err |-> TRUE, ids |-> <<>>]
ListedNone == [err |-> FALSE, ids |-> <<>>]

\* C38: a failure of the local image list is treated as "image not
\* available".  pullImage on a failed list gives what it gives on an empty
\* list, before the pull and after it.  When the list before the pull
\* failed and ImagePull returned a stream, progress is shown as for a
\* missing image: the stream is displayed and "Pulling image" is an info
\* notice, with debug off as well.  When the list after a successful pull
\* failed, pullImage returns the not-available-after-pull error.
C38_ListFailureIsNotAvailable ==
    pullResult # Unset
    => /\ images.before = ListFailed
            => /\ pullResult = pullImage(debug, ListedNone, images.pullFails,
                                         images.streamFails, images.after)
               /\ pullResult.show
               /\ ~images.pullFails
                    => /\ pullResult.stream = "displayed"
                       /\ pullResult.notices =
                            << [tier |-> "info", msg |-> "Pulling image"] >>
       /\ images.after = ListFailed
            => /\ pullResult = pullImage(debug, images.before, images.pullFails,
                                         images.streamFails, ListedNone)
               /\ (~images.pullFails /\ ~images.streamFails)
                    => pullResult.err = ImageMissing

\* With debug off, the list failed before the pull although the image is
\* there: progress was shown, and the pull succeeded.
C38_Witness ==
    /\ pullResult # Unset
    /\ ~debug
    /\ images.before = ListFailed
    /\ ~images.pullFails /\ ~images.streamFails
    /\ images.after = [err |-> FALSE, ids |-> <<"id1">>]
    /\ pullResult.err = "nil"
    /\ pullResult.stream = "displayed"

\* The image was there before the pull and the pull succeeded, but the list
\* after it failed: pullImage returned the not-available-after-pull error.
C38_WitnessAfter ==
    /\ pullResult # Unset
    /\ images.before = [err |-> FALSE, ids |-> <<"id1">>]
    /\ ~images.pullFails /\ ~images.streamFails
    /\ images.after = ListFailed
    /\ pullResult.err = ImageMissing

(***************************************************************************)
(* C39: a stop timeout of 0.                                               *)
(***************************************************************************)
\* C39: a stop timeout of 0 in the container's configuration is the value
\* of a configuration that sets none, and the creation parameters then
\* carry the global default stop timeout.  So the parameters carry a stop
\* timeout of 0 only when the global default is 0 as well: no container
\* configuration overrides a non-zero global default with 0.
C39_ZeroStopTimeoutIsUnset ==
    dockerConfig # Unset =>
        /\ config.stopTimeout = 0
             => dockerConfig.StopTimeout = config.globalStopTimeout
        /\ dockerConfig.StopTimeout = 0 => config.globalStopTimeout = 0

\* The container's stop timeout is 0 and the global default is 8: the
\* creation parameters carry 8.
C39_Witness ==
    /\ dockerConfig # Unset
    /\ config.stopTimeout = 0
    /\ config.globalStopTimeout = 8
    /\ dockerConfig.StopTimeout = 8

====
